---- MODULE Spec2Model ----
(***************************************************************************)
(* A state-machine model of the linker of the SUS compiler: the entity     *)
(* store, the global namespace, the file registry, the global resolver and *)
(* the recompile pipeline.                                                 *)
(*                                                                         *)
(* Ids are the arena's indices, counted from 0 as in the code; the slot of *)
(* id i is element i + 1 of the sequence that models the arena.            *)
(***************************************************************************)
EXTENDS Integers, Sequences, FiniteSets, TLC

VARIABLES
    globals,           \* Linker::globals : arena of Named
    global_namespace,  \* Linker::global_namespace : name -> NamespaceElement
    files,             \* Linker::files : arena of FileData
    fatal,             \* TRUE once an assertion or a panic has stopped the process
    todo,              \* recompile_all's remaining steps, <<>> when no recompile runs
    next_obj,          \* the identity the next shared instance (Rc) gets
    recompiles,        \* recompile_all calls so far
    history,           \* what the completed recompiles since the last file change left
    last,              \* the last operation performed, with its arguments and result
    bound_resolver,    \* the GlobalResolver in use and the unit it is bound to, if any
    checkpoint_log,    \* per checkpoint taken in an analysis session, the stores at that time
    upto,              \* the value of --upto the process was started with, if any
    name_context,      \* the LocalVariableContext of the body being flattened
    frame_saves        \* for each frame still open, the value new_frame returned
                       \* and the declaration stack as it was at that call

vars == <<globals, global_namespace, files, fatal, todo, next_obj, recompiles, history, last,
          bound_resolver, checkpoint_log, upto, name_context, frame_saves>>

(***************************************************************************)
(* Bounds of the model.                                                    *)
(***************************************************************************)
\* Ids the entity arena hands out in one session (the 4 builtins included).
MaxGlobals == 8
\* File ids the file arena hands out in one session.
MaxFileSlots == 3
\* recompile_all calls in one session.
MaxRecompiles == 2
\* Instances one module's cache holds at a time.
MaxInstances == 2
\* Errors and dependencies the analysis of a project's units has produced.
MaxAnalysis == 2
\* File ids the driver reserves in a session working by ids.
MaxReserved == 2
\* Ids the entity arena hands out in such a session (the 4 builtins included).
MaxReservedGlobals == 5
\* File ids the driver passes to one removal in such a session.
MaxRemoved == 2
\* Ids the flattener has for the local declarations of a body.
MaxLocalIds == 3
\* Frames open at a time in a body.
MaxFrames == 2

(***************************************************************************)
(* Program constants.                                                      *)
(***************************************************************************)
BUILTIN_TYPES == <<"bool", "int">>
BUILTIN_CONSTANTS == <<"true", "false">>

BuiltinNames == {"bool", "int", "true", "false"}
UserNames == {"A", "B", "C"}
Names == BuiltinNames \cup UserNames
FileIdentifiers == {"f1", "f2"}

(***************************************************************************)
(* config: the command line of the process, as far as --upto goes, and     *)
(* what config() makes of it. The configuration is computed at the first   *)
(* call of config(), from the arguments the process was started with.      *)
(***************************************************************************)
EarlyExitUpTo ==
    <<"Initialize", "Flatten", "AbstractTypecheck", "Lint", "Instantiate", "CodeGen">>

\* The value names the ValueEnum derive gives the variants: kebab case.
ValueEnumName(variant) ==
    CASE variant = "Initialize" -> "initialize"
      [] variant = "Flatten" -> "flatten"
      [] variant = "AbstractTypecheck" -> "abstract-typecheck"
      [] variant = "Lint" -> "lint"
      [] variant = "Instantiate" -> "instantiate"
      [] variant = "CodeGen" -> "code-gen"

\* What the value parser of --upto accepts.
PossibleValues == {ValueEnumName(EarlyExitUpTo[i]) : i \in DOMAIN EarlyExitUpTo}

\* The default_value of --upto.
DefaultUpto == "codegen"

\* The process was started without --upto.
NotGiven == "NotGiven"

\* The ways to start the process: without --upto, or with a value for it.
UptoArguments == {NotGiven, DefaultUpto} \cup PossibleValues

\* The ids of the arguments the command declares.
ArgIds ==
    {"socket", "lsp", "lsp-debug", "codegen", "debug", "debug-latency",
     "debug-whitelist", "standalone", "upto", "nocolor", "files"}

\* The ids config() reads from the matches, in the order it reads them.
ArgReads ==
    <<"socket", "use_lsp", "lsp-debug", "codegen", "files", "debug", "debug-latency",
      "debug-whitelist", "nocolor", "upto", "standalone", "files">>

\* config(): get_matches ends the process with status 2 on a value the
\* parser of --upto refuses, the default included; a read of an id no
\* argument has panics; otherwise the configuration is returned.
config(upto_arg) ==
    LET value == IF upto_arg = NotGiven THEN DefaultUpto ELSE upto_arg IN
    IF value \notin PossibleValues
    THEN [tag |-> "Exit", status |-> 2]
    ELSE IF \E i \in DOMAIN ArgReads : ArgReads[i] \notin ArgIds
    THEN [tag |-> "Panic",
          id |-> ArgReads[CHOOSE i \in DOMAIN ArgReads :
                    /\ ArgReads[i] \notin ArgIds
                    /\ \A j \in 1..(i - 1) : ArgReads[j] \in ArgIds]]
    ELSE [tag |-> "Config",
          early_exit |-> CHOOSE v \in {EarlyExitUpTo[i] : i \in DOMAIN EarlyExitUpTo} :
                            ValueEnumName(v) = value]

(***************************************************************************)
(* Input: what the parser hands over for one file, a list of module        *)
(* declarations. refs are the global identifiers the body mentions,        *)
(* template_arguments are the names of the declared template inputs,       *)
(* gather_errors the errors declaration gathering itself reports for the   *)
(* module, elab_errors whether elaborating the body reports an error.      *)
(***************************************************************************)
Decl(name, refs, template_arguments, gather_errors, elab_errors) ==
    [name |-> name, refs |-> refs, template_arguments |-> template_arguments,
     gather_errors |-> gather_errors, elab_errors |-> elab_errors]

ParseResults == {
    << Decl("A", <<>>, <<>>, 0, FALSE) >>,
    << Decl("A", <<"B">>, <<>>, 1, TRUE) >>,
    << Decl("B", <<"bool", "A">>, <<"T">>, 0, TRUE) >>,
    << Decl("bool", <<>>, <<>>, 0, FALSE) >>,
    << Decl("A", <<>>, <<>>, 0, TRUE), Decl("B", <<"A">>, <<>>, 1, FALSE) >>
}

(***************************************************************************)
(* Sequence helpers.                                                       *)
(***************************************************************************)
Range(s) == {s[i] : i \in DOMAIN s}

RECURSIVE SetToSeq(_)
\* The members of a finite set of numbers, in increasing order.
SetToSeq(S) ==
    IF S = {} THEN <<>>
    ELSE LET m == CHOOSE x \in S : \A y \in S : x <= y
         IN <<m>> \o SetToSeq(S \ {m})

(***************************************************************************)
(* The arenas (arena_alloc).                                               *)
(***************************************************************************)
FreedSlot == [kind |-> "Freed"]
FreedFile == [state |-> "Freed"]

\* An allocator that hands out the lowest freed entity id again.
arena_next_id_reusing_freed(arena) ==
    IF \E i \in DOMAIN arena : arena[i] = FreedSlot
    THEN (CHOOSE i \in DOMAIN arena :
              /\ arena[i] = FreedSlot
              /\ \A j \in DOMAIN arena : arena[j] = FreedSlot => i <= j) - 1
    ELSE Len(arena)

\* ArenaAllocator::alloc: the id the next allocation returns.
arena_next_id(arena) == Len(arena)

\* ArenaAllocator::alloc: the value is stored in the slot of the id returned.
arena_alloc(arena, value) ==
    LET id == arena_next_id(arena)
    IN IF id = Len(arena) THEN Append(arena, value)
       ELSE [arena EXCEPT ![id + 1] = value]

\* Index by id.
Slot(arena, id) == arena[id + 1]

\* A file id handed out by reserve and not yet filled.
ReservedFile == [state |-> "Reserved"]

\* An index that answers for an empty slot with a default value.
arena_index_defaulting(arena, id) ==
    IF id \in 0..(Len(arena) - 1) /\ Slot(arena, id) \notin {FreedSlot, FreedFile, ReservedFile}
    THEN [some |-> TRUE, val |-> Slot(arena, id)]
    ELSE [some |-> TRUE,
          val |-> [kind |-> "Module", name |-> "", file |-> 0, name_span |-> <<0, 0>>,
                   decl_idx |-> 0, refs |-> <<>>, template_arguments |-> <<>>,
                   elab_errors |-> FALSE, errors |-> <<>>,
                   resolved_globals |-> [referenced_globals |-> <<>>, all_resolved |-> TRUE],
                   checkpoints |-> <<>>, after_initial_parse_cp |-> [some |-> FALSE],
                   after_flatten_cp |-> [some |-> FALSE],
                   instructions |-> <<>>, instantiations |-> <<>>,
                   state |-> "Filled", file_identifier |-> "", text |-> <<>>,
                   associated_values |-> <<>>]]

\* Index by an id a caller holds: the value of an occupied slot. A freed or
\* reserved slot has no value and the access does not return.
arena_index(arena, id) ==
    IF id \in 0..(Len(arena) - 1) /\ Slot(arena, id) \notin {FreedSlot, FreedFile, ReservedFile}
    THEN [some |-> TRUE, val |-> Slot(arena, id)]
    ELSE [some |-> FALSE]

\* ArenaAllocator::reserve.
arena_reserve(arena) == Append(arena, ReservedFile)

IsLiveGlobal(gs, id) == id \in 0..(Len(gs) - 1) /\ Slot(gs, id).kind # "Freed"
IsLiveFile(fs, id) == id \in 0..(Len(fs) - 1) /\ Slot(fs, id).state = "Filled"

LiveFiles(fs) == {f \in 0..(Len(fs) - 1) : IsLiveFile(fs, f)}
LiveGlobals(gs) == {g \in 0..(Len(gs) - 1) : IsLiveGlobal(gs, g)}

\* Linkable::get_link_info: None for a builtin.
HasLinkInfo(named) == named.kind = "Module"

(***************************************************************************)
(* NamespaceElement. A name the HashMap does not hold is Vacant.           *)
(***************************************************************************)
Vacant == [tag |-> "Vacant", ids |-> <<>>]
Global(id) == [tag |-> "Global", ids |-> <<id>>]
Colission(ids) == [tag |-> "Colission", ids |-> ids]

(***************************************************************************)
(* get_builtin_type / get_builtin_constant.                                *)
(***************************************************************************)
const_str_position(name, list) ==
    (CHOOSE i \in DOMAIN list : list[i] = name) - 1

get_builtin_type(name) == const_str_position(name, BUILTIN_TYPES)

get_builtin_constant(name) ==
    const_str_position(name, BUILTIN_CONSTANTS) + Len(BUILTIN_TYPES)

(***************************************************************************)
(* Linker::new.                                                            *)
(***************************************************************************)
\* A builtin has no link info and no source location.
NoFile == -1
NoSpan == <<0, 0>>
BuiltinType(name) == [kind |-> "Type", name |-> name, file |-> NoFile, name_span |-> NoSpan]
BuiltinConstant(name) ==
    [kind |-> "Constant", name |-> name, file |-> NoFile, name_span |-> NoSpan]

\* A construction that allocates the constants before the types.
Linker_new_constants_first ==
    LET gs == [i \in 1..Len(BUILTIN_CONSTANTS) |-> BuiltinConstant(BUILTIN_CONSTANTS[i])]
              \o [i \in 1..Len(BUILTIN_TYPES) |-> BuiltinType(BUILTIN_TYPES[i])]
    IN [globals |-> gs,
        global_namespace |->
            [n \in Names |->
                IF \E i \in DOMAIN gs : gs[i].name = n
                THEN Global((CHOOSE i \in DOMAIN gs : gs[i].name = n) - 1)
                ELSE Vacant],
        files |-> <<>>]

Linker_new ==
    LET gs == [i \in 1..Len(BUILTIN_TYPES) |-> BuiltinType(BUILTIN_TYPES[i])]
              \o [i \in 1..Len(BUILTIN_CONSTANTS) |-> BuiltinConstant(BUILTIN_CONSTANTS[i])]
    IN [globals |-> gs,
        global_namespace |->
            [n \in Names |->
                IF \E i \in DOMAIN gs : gs[i].name = n
                THEN Global((CHOOSE i \in DOMAIN gs : gs[i].name = n) - 1)
                ELSE Vacant],
        files |-> <<>>]

(***************************************************************************)
(* Linker::get_obj_id.                                                     *)
(***************************************************************************)
None == [some |-> FALSE]
Some(v) == [some |-> TRUE, val |-> v]

get_obj_id(ns, name) ==
    IF ns[name].tag = "Global" THEN Some(ns[name].ids[1]) ELSE None

(***************************************************************************)
(* LocalVariableContext: the local names of a body, innermost last.        *)
(***************************************************************************)
LocalNames == {"x", "y", "z"}

Ok == [ok |-> TRUE]
Err(id) == [ok |-> FALSE, err |-> id]

get_declaration_for(ctx, name) ==
    LET found == {i \in DOMAIN ctx.local_stack : ctx.local_stack[i][1] = name}
    IN IF found = {} THEN None
       ELSE Some(ctx.local_stack[CHOOSE i \in found : \A j \in found : j <= i][2])

\* A declaration that is pushed whether or not the name is on the stack.
add_declaration_unchecked(ctx, new_local_name, new_local_unique_id) ==
    [result |-> Ok,
     ctx |-> [ctx EXCEPT !.local_stack = Append(@, <<new_local_name, new_local_unique_id>>)]]

\* The conflicting declaration is the first entry of the whole stack with
\* the name.
add_declaration(ctx, new_local_name, new_local_unique_id) ==
    LET existing == {i \in DOMAIN ctx.local_stack : ctx.local_stack[i][1] = new_local_name}
    IN IF existing # {}
       THEN [result |-> Err(ctx.local_stack[CHOOSE i \in existing : \A j \in existing : i <= j][2]),
             ctx |-> ctx]
       ELSE [result |-> Ok,
             ctx |-> [ctx EXCEPT !.local_stack =
                         Append(@, <<new_local_name, new_local_unique_id>>)]]

new_initial == [local_stack |-> <<>>, current_frame_starts_at |-> 0]

\* The context afterwards and the value returned.
new_frame(ctx) ==
    [ctx |-> [ctx EXCEPT !.current_frame_starts_at = Len(ctx.local_stack)],
     result |-> Len(ctx.local_stack)]

\* A pop that resets the frame start and leaves the stack as it is.
pop_frame_without_truncate(ctx, prev_save) ==
    [local_stack |-> ctx.local_stack,
     current_frame_starts_at |-> prev_save]

pop_frame_asserts(ctx, prev_save) == ctx.current_frame_starts_at >= prev_save

pop_frame(ctx, prev_save) ==
    [local_stack |-> SubSeq(ctx.local_stack, 1, prev_save),
     current_frame_starts_at |-> prev_save]

(***************************************************************************)
(* Linker::add_name.                                                       *)
(***************************************************************************)
\* A declaration that puts the new id in front of the colliders.
add_name_in_front(ns, module_name, new_module_uuid) ==
    LET e == ns[module_name] IN
    CASE e.tag = "Global" ->
            [ns EXCEPT ![module_name] = Colission(<<e.ids[1], new_module_uuid>>)]
      [] e.tag = "Colission" ->
            [ns EXCEPT ![module_name] = Colission(<<new_module_uuid>> \o e.ids)]
      [] OTHER ->
            [ns EXCEPT ![module_name] = Global(new_module_uuid)]

\* A declaration that lists the entity already bound a second time when it
\* turns a single entry into a collision.
add_name_repeating_existing(ns, module_name, new_module_uuid) ==
    LET e == ns[module_name] IN
    CASE e.tag = "Global" ->
            [ns EXCEPT ![module_name] = Colission(<<e.ids[1], e.ids[1], new_module_uuid>>)]
      [] e.tag = "Colission" ->
            [ns EXCEPT ![module_name] = Colission(Append(e.ids, new_module_uuid))]
      [] OTHER ->
            [ns EXCEPT ![module_name] = Global(new_module_uuid)]

add_name(ns, module_name, new_module_uuid) ==
    LET e == ns[module_name] IN
    CASE e.tag = "Global" ->
            [ns EXCEPT ![module_name] = Colission(<<e.ids[1], new_module_uuid>>)]
      [] e.tag = "Colission" ->
            [ns EXCEPT ![module_name] = Colission(Append(e.ids, new_module_uuid))]
      [] OTHER ->
            [ns EXCEPT ![module_name] = Global(new_module_uuid)]

(***************************************************************************)
(* Linker::remove_file_datas: free the values of the files, then retain    *)
(* in the namespace what does not name one of them.                        *)
(***************************************************************************)
to_remove_set(fs, file_ids) ==
    UNION {Range(arena_index(fs, f).val.associated_values) : f \in Range(file_ids)}

\* A retain that drops every bucket that lists a removed id.
namespace_retain_dropping_bucket(ns, removed) ==
    [n \in DOMAIN ns |->
        IF Range(ns[n].ids) \cap removed # {} THEN Vacant ELSE ns[n]]

namespace_retain(ns, removed) ==
    [n \in DOMAIN ns |->
        LET e == ns[n] IN
        CASE e.tag = "Global" ->
                IF e.ids[1] \in removed THEN Vacant ELSE e
          [] e.tag = "Colission" ->
                LET retain_vec == SelectSeq(e.ids, LAMBDA g : g \notin removed)
                IN IF Len(retain_vec) > 0 THEN Colission(retain_vec) ELSE Vacant
          [] OTHER -> e]

\* ArenaAllocator::free for each value of a list, in order: a value that is
\* not there stops the loop.
RECURSIVE free_values(_, _)
free_values(gs, values) ==
    IF values = <<>> THEN [ok |-> TRUE, globals |-> gs]
    ELSE IF ~arena_index(gs, Head(values)).some THEN [ok |-> FALSE, globals |-> gs]
    ELSE free_values([gs EXCEPT ![Head(values) + 1] = FreedSlot], Tail(values))

\* The first loop of remove_file_datas: each file of the list is indexed and
\* its values are freed; a file that is not there stops the loop, with the
\* values of the files before it freed.
RECURSIVE free_file_values(_, _, _)
free_file_values(gs, fs, file_ids) ==
    IF file_ids = <<>> THEN [ok |-> TRUE, globals |-> gs]
    ELSE IF ~arena_index(fs, Head(file_ids)).some THEN [ok |-> FALSE, globals |-> gs]
    ELSE LET freed == free_values(gs, arena_index(fs, Head(file_ids)).val.associated_values)
         IN IF freed.ok
            THEN free_file_values(freed.globals, fs, Tail(file_ids))
            ELSE freed

\* Whether remove_file_datas gets through its first loop.
remove_file_datas_asserts(L, file_ids) ==
    free_file_values(L.globals, L.files, file_ids).ok

\* The linker a remove_file_datas leaves that does not get through.
remove_file_datas_stopped(L, file_ids) ==
    [L EXCEPT !.globals = free_file_values(L.globals, L.files, file_ids).globals]

\* A removal that frees the values and leaves the namespace as it is.
remove_file_datas_keeping_names(L, file_ids) ==
    LET removed == to_remove_set(L.files, file_ids) IN
    [L EXCEPT
        !.globals = [i \in DOMAIN L.globals |->
                        IF (i - 1) \in removed THEN FreedSlot ELSE L.globals[i]]]

remove_file_datas(L, file_ids) ==
    LET removed == to_remove_set(L.files, file_ids) IN
    [L EXCEPT
        !.globals = [i \in DOMAIN L.globals |->
                        IF (i - 1) \in removed THEN FreedSlot ELSE L.globals[i]],
        !.global_namespace = namespace_retain(L.global_namespace, removed)]

(***************************************************************************)
(* Linker::remove_files.                                                   *)
(***************************************************************************)
\* The second loop of remove_files: ArenaAllocator::free for each file of
\* the list, in order: a file that is not there stops the loop, with the
\* files before it freed.
RECURSIVE free_files(_, _)
free_files(fs, file_ids) ==
    IF file_ids = <<>> THEN [ok |-> TRUE, files |-> fs]
    ELSE IF ~arena_index(fs, Head(file_ids)).some THEN [ok |-> FALSE, files |-> fs]
    ELSE free_files([fs EXCEPT ![Head(file_ids) + 1] = FreedFile], Tail(file_ids))

\* Whether remove_files gets through remove_file_datas and its own loop.
remove_files_asserts(L, file_ids) ==
    /\ remove_file_datas_asserts(L, file_ids)
    /\ free_files(L.files, file_ids).ok

\* The linker a remove_files leaves that does not get through.
remove_files_stopped(L, file_ids) ==
    IF ~remove_file_datas_asserts(L, file_ids)
    THEN remove_file_datas_stopped(L, file_ids)
    ELSE [remove_file_datas(L, file_ids) EXCEPT
             !.files = free_files(L.files, file_ids).files]

remove_files(L, file_ids) ==
    LET L1 == remove_file_datas(L, file_ids) IN
    [L1 EXCEPT !.files = free_files(L1.files, file_ids).files]

(***************************************************************************)
(* Diagnostics: a primary position and message, and the info labels.       *)
(* A span is <<d, k>>: reference k of the d-th declaration of the file,    *)
(* k = 0 for the declaration's own name.                                   *)
(***************************************************************************)
error_info(position, file_name, info) ==
    [position |-> position, file |-> file_name, info |-> info]

ParsingError(position, reason, infos) ==
    [position |-> position, reason |-> reason, infos |-> infos]

(***************************************************************************)
(* ResolvedGlobals.                                                        *)
(***************************************************************************)
ResolvedGlobals_empty == [referenced_globals |-> <<>>, all_resolved |-> TRUE]

ResolvedGlobals_is_untouched(rg) ==
    rg.referenced_globals = <<>> /\ rg.all_resolved

ResolvedGlobals_checkpoint(rg) == <<Len(rg.referenced_globals), rg.all_resolved>>

\* Vec::truncate keeps the first n elements, all of them when there are fewer.
Truncate(s, n) == IF n >= Len(s) THEN s ELSE SubSeq(s, 1, n)

\* A rollback that leaves the completeness flag as it is.
ResolvedGlobals_reset_to_keeping_flag(rg, checkpoint) ==
    [referenced_globals |-> Truncate(rg.referenced_globals, checkpoint[1]),
     all_resolved |-> rg.all_resolved]

ResolvedGlobals_reset_to(rg, checkpoint) ==
    [referenced_globals |-> Truncate(rg.referenced_globals, checkpoint[1]),
     all_resolved |-> checkpoint[2]]

(***************************************************************************)
(* ErrorStore and CheckPoint.                                              *)
(***************************************************************************)
ErrorStore_new == <<>>
ErrorStore_is_untouched(errors) == errors = <<>>
ErrorStore_checkpoint(errors) == Len(errors)
\* A store that forgets nothing.

ErrorStore_reset_to(errors, checkpoint) == Truncate(errors, checkpoint)

CheckPoint_checkpoint(errors, resolved_globals) ==
    [errors_cp |-> ErrorStore_checkpoint(errors),
     resolved_globals_cp |-> ResolvedGlobals_checkpoint(resolved_globals)]

(***************************************************************************)
(* Declaration gathering: Linker::add_reserved_file's loop.                *)
(***************************************************************************)
NewModule(decl, file, decl_idx) ==
    LET errors == [k \in 1..decl.gather_errors |->
                      ParsingError(<<decl_idx, 0>>, <<"declaration error", decl.name>>, <<>>)]
        resolved_globals == ResolvedGlobals_empty
        cp == CheckPoint_checkpoint(errors, resolved_globals)
    IN [kind |-> "Module",
        name |-> decl.name,
        file |-> file,
        name_span |-> <<decl_idx, 0>>,
        decl_idx |-> decl_idx,
        refs |-> decl.refs,
        template_arguments |-> decl.template_arguments,
        elab_errors |-> decl.elab_errors,
        errors |-> errors,
        resolved_globals |-> resolved_globals,
        checkpoints |-> <<cp>>,
        after_initial_parse_cp |-> cp,
        after_flatten_cp |-> None,
        instructions |-> <<>>,
        instantiations |-> <<>>]

RECURSIVE gather_modules(_, _, _)
gather_modules(L, file, decls) ==
    IF decls = <<>> THEN L
    ELSE LET new_module_uuid == arena_next_id(L.globals)
             decl_idx == Len(Slot(L.files, file).associated_values) + 1
             md == NewModule(Head(decls), file, decl_idx)
         IN gather_modules(
                [globals |-> arena_alloc(L.globals, md),
                 global_namespace |-> add_name(L.global_namespace, md.name, new_module_uuid),
                 files |-> [L.files EXCEPT ![file + 1].associated_values =
                                Append(@, new_module_uuid)]],
                file, Tail(decls))

(***************************************************************************)
(* Linker::add_file: reserve, fill, gather.                                *)
(***************************************************************************)
FileData(file_identifier, text) ==
    [state |-> "Filled",
     file_identifier |-> file_identifier,
     text |-> text,
     associated_values |-> <<>>]

\* An add_file that takes any identifier.
add_file_asserts_nothing(L, file_identifier) == TRUE

add_file_asserts(L, file_identifier) ==
    ~ \E f \in LiveFiles(L.files) : Slot(L.files, f).file_identifier = file_identifier

add_file(L, file_identifier, text) ==
    LET file_id == arena_next_id(L.files)
        L1 == [L EXCEPT !.files = arena_alloc(@, FileData(file_identifier, text))]
    IN gather_modules(L1, file_id, text)

(***************************************************************************)
(* Linker::update_file: remove everything in the file, replace its text,   *)
(* gather again into the same file id.                                     *)
(***************************************************************************)
\* An update that gathers the new text without removing what the file held.
update_file_keeping_entities(L, text, file_id) ==
    LET L2 == [L EXCEPT !.files[file_id + 1].associated_values = <<>>,
                        !.files[file_id + 1].text = text]
    IN gather_modules(L2, file_id, text)

update_file(L, text, file_id) ==
    LET L1 == remove_file_datas(L, <<file_id>>)
        L2 == [L1 EXCEPT !.files[file_id + 1].associated_values = <<>>,
                         !.files[file_id + 1].text = text]
    IN gather_modules(L2, file_id, text)

(***************************************************************************)
(* Linker::reserve_file, add_reserved_file and relink: the file id is      *)
(* reserved first and filled when the parse result arrives. These file     *)
(* records carry no identifier.                                            *)
(***************************************************************************)
NoIdentifier == ""

reserve_file(L) == [L EXCEPT !.files = arena_reserve(@)]

\* alloc_reservation fills a reserved slot and nothing else.
add_reserved_file_asserts(L, file) ==
    file \in 0..(Len(L.files) - 1) /\ Slot(L.files, file) = ReservedFile

\* The modules are allocated and named in the order of the parse result and
\* listed as the associated values of the record that fills the reservation.
add_reserved_file(L, file, parse_result) ==
    LET L1 == [L EXCEPT !.files[file + 1] = FileData(NoIdentifier, parse_result)]
    IN gather_modules(L1, file, parse_result)

\* The linker an add_reserved_file leaves whose slot is not reserved: the
\* modules are allocated and named before alloc_reservation refuses the slot.
add_reserved_file_stopped(L, file, parse_result) ==
    LET gathered == add_reserved_file(L, file, parse_result)
    IN [L EXCEPT !.globals = gathered.globals,
                 !.global_namespace = gathered.global_namespace]

relink(L, file, parse_result) ==
    LET L1 == remove_file_datas(L, <<file>>)
        L2 == [L1 EXCEPT !.files[file + 1] = ReservedFile]
    IN add_reserved_file(L2, file, parse_result)

(***************************************************************************)
(* Linker::get_duplicate_declaration_errors. The HashMap is walked in no   *)
(* particular order, so the report is the collection of the errors, each   *)
(* with the bucket and the collider it was reported for.                   *)
(***************************************************************************)
\* The mutant of duplicate_declaration_error: only the colliders after the
\* declaration are looked at.
duplicate_declaration_error_later_only(gs, colission, idx) ==
    LET info == Slot(gs, colission[idx])
        others == SelectSeq([i \in DOMAIN colission |-> i], LAMBDA i : i > idx)
        conflict_idx == SelectSeq(others, LAMBDA i : HasLinkInfo(Slot(gs, colission[i])))
        builtin_conflict == \E i \in Range(others) : ~HasLinkInfo(Slot(gs, colission[i]))
        infos == [k \in DOMAIN conflict_idx |->
                    LET conf_info == Slot(gs, colission[conflict_idx[k]])
                    IN error_info(conf_info.name_span, conf_info.file, "Conflicts with")]
    IN ParsingError(info.name_span,
                    IF builtin_conflict
                    THEN <<"Cannot redeclare the builtin", info.name>>
                    ELSE <<"conflicts with other declarations", info.name>>,
                    infos)

\* An error whose labels run over every collider, the declaration included.
duplicate_declaration_error_with_itself(gs, colission, idx) ==
    LET info == Slot(gs, colission[idx])
        others == [i \in DOMAIN colission |-> i]
        conflict_idx == SelectSeq(others, LAMBDA i : HasLinkInfo(Slot(gs, colission[i])))
        builtin_conflict == \E i \in Range(others) : ~HasLinkInfo(Slot(gs, colission[i]))
        infos == [k \in DOMAIN conflict_idx |->
                    LET conf_info == Slot(gs, colission[conflict_idx[k]])
                    IN error_info(conf_info.name_span, conf_info.file, "Conflicts with")]
    IN ParsingError(info.name_span,
                    IF builtin_conflict
                    THEN <<"Cannot redeclare the builtin", info.name>>
                    ELSE <<"conflicts with other declarations", info.name>>,
                    infos)

\* The error reported for collider idx of a bucket.
duplicate_declaration_error(gs, colission, idx) ==
    LET info == Slot(gs, colission[idx])
        others == SelectSeq([i \in DOMAIN colission |-> i], LAMBDA i : i # idx)
        conflict_idx == SelectSeq(others, LAMBDA i : HasLinkInfo(Slot(gs, colission[i])))
        builtin_conflict == \E i \in Range(others) : ~HasLinkInfo(Slot(gs, colission[i]))
        infos == [k \in DOMAIN conflict_idx |->
                    LET conf_info == Slot(gs, colission[conflict_idx[k]])
                    IN error_info(conf_info.name_span, conf_info.file, "Conflicts with")]
    IN ParsingError(info.name_span,
                    IF builtin_conflict
                    THEN <<"Cannot redeclare the builtin", info.name>>
                    ELSE <<"conflicts with other declarations", info.name>>,
                    infos)

\* A report that leaves out the first declaration of every collision.
get_duplicate_declaration_errors_skipping_first(L, file_uuid) ==
    {[bucket |-> p[1], idx |-> p[2],
      error |-> duplicate_declaration_error(L.globals, L.global_namespace[p[1]].ids, p[2])] :
        p \in {q \in Names \X (2..Len(L.globals)) :
                /\ L.global_namespace[q[1]].tag = "Colission"
                /\ q[2] \in DOMAIN L.global_namespace[q[1]].ids
                /\ HasLinkInfo(Slot(L.globals, L.global_namespace[q[1]].ids[q[2]]))
                /\ Slot(L.globals, L.global_namespace[q[1]].ids[q[2]]).file = file_uuid}}

get_duplicate_declaration_errors(L, file_uuid) ==
    {[bucket |-> p[1], idx |-> p[2],
      error |-> duplicate_declaration_error(L.globals, L.global_namespace[p[1]].ids, p[2])] :
        p \in {q \in Names \X (1..Len(L.globals)) :
                /\ L.global_namespace[q[1]].tag = "Colission"
                /\ q[2] \in DOMAIN L.global_namespace[q[1]].ids
                /\ HasLinkInfo(Slot(L.globals, L.global_namespace[q[1]].ids[q[2]]))
                /\ Slot(L.globals, L.global_namespace[q[1]].ids[q[2]]).file = file_uuid}}

\* The assertion of get_duplicate_declaration_errors: no declaration collides
\* with two builtins.
duplicate_declaration_asserts(L) ==
    \A n \in Names :
        L.global_namespace[n].tag = "Colission" =>
            Cardinality({i \in DOMAIN L.global_namespace[n].ids :
                ~HasLinkInfo(Slot(L.globals, L.global_namespace[n].ids[i]))}) <= 1

(***************************************************************************)
(* GlobalResolver: the error store and the resolved globals of the unit    *)
(* under analysis, taken out of its link info while the analysis runs.     *)
(***************************************************************************)
\* A take that hands over the dependencies and drops the errors.
take_errors_globals_dropping_errors(md) ==
    [taken |-> [errors |-> ErrorStore_new, resolved_globals |-> md.resolved_globals],
     md |-> [md EXCEPT !.errors = ErrorStore_new,
                       !.resolved_globals = ResolvedGlobals_empty]]

take_errors_globals(md) ==
    [taken |-> [errors |-> md.errors, resolved_globals |-> md.resolved_globals],
     md |-> [md EXCEPT !.errors = ErrorStore_new,
                       !.resolved_globals = ResolvedGlobals_empty]]

\* A resolver that starts from empty resolved globals.
GlobalResolver_new_forgetting(errors_globals) ==
    [errors |-> errors_globals.errors,
     resolved_globals |-> ResolvedGlobals_empty]

GlobalResolver_new(errors_globals) ==
    [errors |-> errors_globals.errors,
     resolved_globals |-> errors_globals.resolved_globals]

decommission(resolver) ==
    [errors |-> resolver.errors, resolved_globals |-> resolver.resolved_globals]

get_linking_error_location(gs, global) ==
    LET named == Slot(gs, global) IN
    [named_type |-> CASE named.kind = "Module" -> "Module"
                      [] named.kind = "Type" -> "Struct"
                      [] named.kind = "Constant" -> "Constant",
     full_name |-> named.name,
     location |-> <<named.name_span, named.file>>]

\* A resolver that settles a collision by its first declaration.
resolve_global_first_of_collision(L, resolver, name, name_span) ==
    LET e == L.global_namespace[name] IN
    IF e.tag # "Vacant"
    THEN [result |-> Some(e.ids[1]),
          resolver |-> [resolver EXCEPT
              !.resolved_globals.referenced_globals = Append(@, e.ids[1])]]
    ELSE [result |-> None,
          resolver |-> [resolver EXCEPT
              !.resolved_globals.all_resolved = FALSE,
              !.errors = Append(@, ParsingError(name_span,
                  <<"No Global of the name was found", name>>, <<>>))]]

\* GlobalResolver::resolve_global: the result and the resolver afterwards.
resolve_global(L, resolver, name, name_span) ==
    LET e == L.global_namespace[name] IN
    CASE e.tag = "Global" ->
            [result |-> Some(e.ids[1]),
             resolver |-> [resolver EXCEPT
                 !.resolved_globals.referenced_globals = Append(@, e.ids[1])]]
      [] e.tag = "Colission" ->
            [result |-> None,
             resolver |-> [resolver EXCEPT
                 !.resolved_globals.all_resolved = FALSE,
                 !.errors = Append(@, ParsingError(name_span,
                     <<"There were colliding imports for the name", name>>,
                     [i \in DOMAIN e.ids |->
                         LET err_loc == get_linking_error_location(L.globals, e.ids[i])
                         IN error_info(err_loc.location[1], err_loc.location[2],
                                <<err_loc.named_type, err_loc.full_name, "declared here">>)]))]]
      [] OTHER ->
            [result |-> None,
             resolver |-> [resolver EXCEPT
                 !.resolved_globals.all_resolved = FALSE,
                 !.errors = Append(@, ParsingError(name_span,
                     <<"No Global of the name was found", name>>, <<>>))]]

\* Index<ModuleUUID> for GlobalResolver: the access is recorded.
GlobalResolver_index(resolver, index) ==
    [resolver EXCEPT !.resolved_globals.referenced_globals = Append(@, index)]

\* GlobalResolver::get_link_info: the access is recorded.
get_link_info(resolver, id) ==
    [resolver EXCEPT !.resolved_globals.referenced_globals = Append(@, id)]

\* GlobalResolver::is_module and GlobalResolver::get_module: the entity is
\* read from the store; the resolver is left as it is. get_module unwraps.
is_module(L, resolver, uuid) ==
    [result |-> IF Slot(L.globals, uuid).kind = "Module" THEN Some(uuid) ELSE None,
     resolver |-> resolver]

get_module_asserts(L, uuid) == is_module(L, <<>>, uuid).result.some

get_module(L, resolver, uuid) ==
    [result |-> is_module(L, resolver, uuid).result.val,
     resolver |-> resolver]

\* GlobalResolver::not_expected_global_error.
GlobalReference(name_span, id) == [name_span |-> name_span, id |-> id]

not_expected_global_error(L, resolver, global_ref, expected) ==
    LET info == get_linking_error_location(L.globals, global_ref.id) IN
    [resolver EXCEPT
        !.errors = Append(@, ParsingError(global_ref.name_span,
            <<info.full_name, "is not a", expected, "it is a", info.named_type, "instead">>,
            << error_info(info.location[1], info.location[2], "Defined here") >>))]

\* Linkable::get_linking_error_location of Named: a builtin has no location.
Named_get_linking_error_location(named) ==
    [named_type |-> IF HasLinkInfo(named) THEN named.kind
                    ELSE IF named.kind = "Type" THEN "Builtin Type" ELSE "Builtin Constant",
     name |-> named.name,
     location |-> IF HasLinkInfo(named) THEN Some(<<named.file, named.name_span>>) ELSE None]

\* GlobalResolver::resolve_global as the typed lookups call it: a name of
\* several declarations is reported like a name of none.
resolve_global_of_lookup(L, resolver, name, name_span) ==
    LET e == L.global_namespace[name] IN
    IF e.tag = "Global"
    THEN [result |-> Some(e.ids[1]),
          resolver |-> [resolver EXCEPT
              !.resolved_globals.referenced_globals = Append(@, e.ids[1])]]
    ELSE [result |-> None,
          resolver |-> [resolver EXCEPT
              !.resolved_globals.all_resolved = FALSE,
              !.errors = Append(@, ParsingError(name_span,
                  <<"No Value or Type of the name was found", name>>, <<>>))]]

\* The kind each typed lookup accepts.
try_get_accepts(expected, named) ==
    CASE expected = "Constant" -> named.kind = "Constant" /\ ~HasLinkInfo(named)
      [] expected = "Type" -> named.kind = "Type"
      [] OTHER -> named.kind = "Module"

\* A typed lookup that reports an entity of another kind without a label.
try_get_without_label(L, resolver, identifier_span, name, expected) ==
    LET out == resolve_global_of_lookup(L, resolver, name, identifier_span) IN
    IF ~out.result.some THEN out
    ELSE IF try_get_accepts(expected, Slot(L.globals, out.result.val)) THEN out
    ELSE LET info == Named_get_linking_error_location(Slot(L.globals, out.result.val))
         IN [result |-> None,
             resolver |-> [out.resolver EXCEPT
                 !.errors = Append(@, ParsingError(identifier_span,
                     <<info.named_type, info.name, "is not a", expected>>, <<>>))]]

\* GlobalResolver::try_get_constant, try_get_type and try_get_module: the
\* name is resolved, and an entity of another kind is reported.
try_get(L, resolver, identifier_span, name, expected) ==
    LET out == resolve_global_of_lookup(L, resolver, name, identifier_span) IN
    IF ~out.result.some THEN out
    ELSE IF try_get_accepts(expected, Slot(L.globals, out.result.val)) THEN out
    ELSE LET info == Named_get_linking_error_location(Slot(L.globals, out.result.val))
             infos == IF info.location.some
                      THEN << error_info(info.location.val[2], info.location.val[1],
                                         "Defined here") >>
                      ELSE <<>>
         IN [result |-> None,
             resolver |-> [out.resolver EXCEPT
                 !.errors = Append(@, ParsingError(identifier_span,
                     <<info.named_type, info.name, "is not a", expected>>, infos))]]

(***************************************************************************)
(* LinkInfo::reabsorb_errors_globals and its assertions.                   *)
(***************************************************************************)
\* Assertions that do not look at the checkpoint index.
reabsorb_asserts_untouched_only(md, checkpoint_id) ==
    /\ ResolvedGlobals_is_untouched(md.resolved_globals)
    /\ ErrorStore_is_untouched(md.errors)

reabsorb_asserts(md, checkpoint_id) ==
    /\ ResolvedGlobals_is_untouched(md.resolved_globals)
    /\ ErrorStore_is_untouched(md.errors)
    /\ Len(md.checkpoints) = checkpoint_id

\* A reabsorb that stores the dependencies and leaves the errors behind.
reabsorb_errors_globals_without_errors(md, errors_globals, checkpoint_id) ==
    [md EXCEPT
        !.resolved_globals = errors_globals.resolved_globals,
        !.checkpoints = Append(@, CheckPoint_checkpoint(errors_globals.errors,
                                      errors_globals.resolved_globals))]

\* A reabsorb that takes the checkpoint before it stores what it was given.
reabsorb_errors_globals_checkpoint_first(md, errors_globals, checkpoint_id) ==
    [md EXCEPT
        !.resolved_globals = errors_globals.resolved_globals,
        !.errors = errors_globals.errors,
        !.checkpoints = Append(@, CheckPoint_checkpoint(md.errors, md.resolved_globals))]

reabsorb_errors_globals(md, errors_globals, checkpoint_id) ==
    [md EXCEPT
        !.resolved_globals = errors_globals.resolved_globals,
        !.errors = errors_globals.errors,
        !.checkpoints = Append(@, CheckPoint_checkpoint(errors_globals.errors,
                                      errors_globals.resolved_globals))]

\* LinkInfo::reset_to: the stores and the checkpoint log are rewound to the
\* checkpoint.
LinkInfo_reset_to(md, checkpoint) ==
    LET at == CHOOSE i \in DOMAIN md.checkpoints :
                /\ md.checkpoints[i] = checkpoint
                /\ \A j \in 1..(i - 1) : md.checkpoints[j] # checkpoint
    IN [md EXCEPT
        !.errors = ErrorStore_reset_to(@, checkpoint.errors_cp),
        !.resolved_globals = ResolvedGlobals_reset_to(@, checkpoint.resolved_globals_cp),
        !.checkpoints = SubSeq(@, 1, at)]

(***************************************************************************)
(* The checkpoint each stage takes.                                        *)
(***************************************************************************)
AFTER_INITIAL_PARSE_CP == 0
AFTER_FLATTEN_CP == 1
AFTER_TYPECHECK_CP == 2

(***************************************************************************)
(* flatten_all_modules, for one module: every global identifier of the     *)
(* body is resolved through a resolver bound to the module.                *)
(***************************************************************************)
RECURSIVE flatten_refs(_, _, _, _, _)
flatten_refs(L, md, k, resolver, instructions) ==
    IF k > Len(md.refs) THEN [resolver |-> resolver, instructions |-> instructions]
    ELSE LET out == resolve_global(L, resolver, md.refs[k], <<md.decl_idx, k>>)
         IN flatten_refs(L, md, k + 1, out.resolver, Append(instructions, out.result))

flatten_module(L, id) ==
    LET t == take_errors_globals(Slot(L.globals, id))
        f == flatten_refs(L, t.md, 1, GlobalResolver_new(t.taken), <<>>)
        md == reabsorb_errors_globals(t.md, decommission(f.resolver), AFTER_FLATTEN_CP)
    IN [md EXCEPT !.instructions = f.instructions,
                  !.after_flatten_cp = Some(md.checkpoints[Len(md.checkpoints)])]

(***************************************************************************)
(* typecheck_all_modules, for one module: every resolved global of the     *)
(* body is read through the resolver.                                      *)
(***************************************************************************)
RECURSIVE typecheck_instructions(_, _, _)
typecheck_instructions(instructions, k, resolver) ==
    IF k > Len(instructions) THEN resolver
    ELSE typecheck_instructions(instructions, k + 1,
            IF instructions[k].some
            THEN GlobalResolver_index(resolver, instructions[k].val)
            ELSE resolver)

typecheck_module(L, id) ==
    LET t == take_errors_globals(Slot(L.globals, id))
        r == typecheck_instructions(t.md.instructions, 1, GlobalResolver_new(t.taken))
    IN reabsorb_errors_globals(t.md, decommission(r), AFTER_TYPECHECK_CP)

(***************************************************************************)
(* check_all_template_args_valid: whether every formal has an argument,    *)
(* and the one error listing the missing ones otherwise.                   *)
(***************************************************************************)
NotProvided == "NotProvided"

\* A validation that reports the first missing argument only.
check_all_template_args_valid_first_missing(span, target, template_args) ==
    LET not_found_list ==
            SelectSeq([i \in DOMAIN target.template_arguments |-> i],
                      LAMBDA i : template_args[i] = NotProvided)
    IN IF not_found_list # <<>>
       THEN [ok |-> FALSE,
             errors |-> << ParsingError(span,
                 <<"Could not instantiate", target.name,
                   << target.template_arguments[not_found_list[1]] >> >>,
                 << error_info(<<target.decl_idx, -not_found_list[1]>>, target.file,
                         <<target.template_arguments[not_found_list[1]], "defined here">>) >>) >>]
       ELSE [ok |-> TRUE, errors |-> <<>>]

check_all_template_args_valid(span, target, template_args) ==
    LET not_found_list ==
            SelectSeq([i \in DOMAIN target.template_arguments |-> i],
                      LAMBDA i : template_args[i] = NotProvided)
    IN IF not_found_list # <<>>
       THEN [ok |-> FALSE,
             errors |-> << ParsingError(span,
                 <<"Could not instantiate", target.name,
                   [k \in DOMAIN not_found_list |->
                        target.template_arguments[not_found_list[k]]]>>,
                 [k \in DOMAIN not_found_list |->
                     error_info(<<target.decl_idx, -not_found_list[k]>>, target.file,
                         <<target.template_arguments[not_found_list[k]], "defined here">>)]) >>]
       ELSE [ok |-> TRUE, errors |-> <<>>]

(***************************************************************************)
(* InstantiationList: the instances of a module, by argument tuple.        *)
(***************************************************************************)
clear_instances == <<>>

cache_find(instantiations, template_args) ==
    {i \in DOMAIN instantiations : instantiations[i].args = template_args}

\* The elaboration of the body for the arguments.
perform_instantiation(md, template_args, obj) ==
    [obj |-> obj,
     args |-> template_args,
     errors |-> IF md.elab_errors
                THEN << ParsingError(md.name_span, <<"instantiation error", md.name>>, <<>>) >>
                ELSE <<>>]

\* An instantiate that elaborates on every call.
InstantiationList_instantiate_without_cache(md, template_args, obj) ==
    LET inst == perform_instantiation(md, template_args, obj)
    IN [md |-> [md EXCEPT !.instantiations = Append(@, inst)],
        result |-> inst,
        created |-> TRUE]

\* InstantiationList::instantiate: the module afterwards, the shared instance,
\* and whether it was made by this call.
InstantiationList_instantiate(md, template_args, obj) ==
    IF cache_find(md.instantiations, template_args) # {}
    THEN [md |-> md,
          result |-> md.instantiations[CHOOSE i \in cache_find(md.instantiations, template_args) : TRUE],
          created |-> FALSE]
    ELSE LET inst == perform_instantiation(md, template_args, obj)
         IN [md |-> [md EXCEPT !.instantiations = Append(@, inst)],
             result |-> inst,
             created |-> TRUE]

\* InstantiationList::collect_errors.
RECURSIVE FlattenSeqs(_)
FlattenSeqs(ss) == IF ss = <<>> THEN <<>> ELSE Head(ss) \o FlattenSeqs(Tail(ss))

collect_errors(instantiations) ==
    FlattenSeqs([i \in DOMAIN instantiations |-> instantiations[i].errors])

(***************************************************************************)
(* Linker::get_flattening_errors and Linker::get_all_errors_in_file.       *)
(***************************************************************************)
get_flattening_errors(L, file_uuid) ==
    LET vs == Slot(L.files, file_uuid).associated_values IN
    FlattenSeqs([i \in DOMAIN vs |->
        Slot(L.globals, vs[i]).errors \o collect_errors(Slot(L.globals, vs[i]).instantiations)])

get_all_errors_in_file(L, file_uuid) ==
    [duplicate_declarations |-> get_duplicate_declaration_errors(L, file_uuid),
     flattening |-> get_flattening_errors(L, file_uuid)]

(***************************************************************************)
(* Linker::recompile_all: the steps in the order the code takes them.      *)
(***************************************************************************)
Modules(gs) == {g \in 0..(Len(gs) - 1) : Slot(gs, g).kind = "Module"}

Task(stage, id) == [stage |-> stage, id |-> id]

StageTasks(stage, ids) == [i \in DOMAIN ids |-> Task(stage, ids[i])]

\* The reads of config() are steps of their own: one after flattening, one
\* after typechecking.
recompile_all_steps(L) ==
    LET ids == SetToSeq(Modules(L.globals)) IN
       StageTasks("Reset", ids)
    \o StageTasks("Flatten", ids)
    \o << Task("Config", -1) >>
    \o StageTasks("Typecheck", ids)
    \o << Task("Config", -1) >>
    \o StageTasks("Instantiate", ids)
    \o << Task("Return", -1) >>

\* The body of recompile_all's first loop.
recompile_reset(md) ==
    LET link_info == LinkInfo_reset_to(md, md.after_initial_parse_cp) IN
    [link_info EXCEPT
        !.after_flatten_cp = None,
        !.instructions = <<>>,
        !.instantiations = clear_instances]

\* The body of recompile_all's last loop.
recompile_instantiate(md, obj) ==
    IF md.template_arguments = <<>>
    THEN InstantiationList_instantiate(md, <<>>, obj)
    ELSE [md |-> md, result |-> None, created |-> FALSE]

(***************************************************************************)
(* Linker::recompile_all of linker.rs: one pass of the first loop flattens *)
(* and typechecks a module into a new FlattenedModule, stores it and       *)
(* clears the module's instances; the second loop instantiates every       *)
(* module.                                                                 *)
(***************************************************************************)
recompile_all_of_linker_steps(L) ==
    LET ids == SetToSeq(Modules(L.globals)) IN
       StageTasks("Module", ids)
    \o StageTasks("InstantiateId", ids)
    \o << Task("Return", -1) >>

\* FlattenedModule::initialize: the module's body flattened anew from what
\* declaration gathering left, every global identifier resolved through the
\* GlobalResolver of linker.rs.
RECURSIVE initialize_refs(_, _, _, _, _)
initialize_refs(L, md, k, resolver, instructions) ==
    IF k > Len(md.refs) THEN [resolver |-> resolver, instructions |-> instructions]
    ELSE LET out == resolve_global_of_lookup(L, resolver, md.refs[k], <<md.decl_idx, k>>)
         IN initialize_refs(L, md, k + 1, out.resolver, Append(instructions, out.result))

FlattenedModule_initialize(L, id) ==
    LET link_info == LinkInfo_reset_to(Slot(L.globals, id), Slot(L.globals, id).after_initial_parse_cp)
        t == take_errors_globals(link_info)
        f == initialize_refs(L, t.md, 1, GlobalResolver_new(t.taken), <<>>)
        md == reabsorb_errors_globals(t.md, decommission(f.resolver), AFTER_FLATTEN_CP)
    IN [md EXCEPT !.instructions = f.instructions,
                  !.after_flatten_cp = Some(md.checkpoints[Len(md.checkpoints)])]

\* FlattenedModule::typecheck: the instructions are checked against the
\* entities of the linker's store.
FlattenedModule_typecheck(flattened) ==
    LET t == take_errors_globals(flattened)
    IN reabsorb_errors_globals(t.md, t.taken, AFTER_TYPECHECK_CP)

\* A pass of the first loop that flattens on top of what the pass before
\* left in the module.
recompile_module_without_rewind(L, id) ==
    LET t == take_errors_globals(Slot(L.globals, id))
        f == initialize_refs(L, t.md, 1, GlobalResolver_new(t.taken), <<>>)
        md == reabsorb_errors_globals(t.md, decommission(f.resolver), AFTER_FLATTEN_CP)
        flattened == [md EXCEPT !.instructions = f.instructions,
                                !.after_flatten_cp = Some(md.checkpoints[Len(md.checkpoints)])]
    IN [FlattenedModule_typecheck(flattened) EXCEPT !.instantiations = clear_instances]

\* The body of the first loop: the new FlattenedModule is stored and the
\* instances are cleared.
recompile_module(L, id) ==
    [FlattenedModule_typecheck(FlattenedModule_initialize(L, id)) EXCEPT
        !.instantiations = clear_instances]

\* Linker::instantiate for an id the caller holds: the entity is indexed and
\* has to be a module.
instantiate_asserts(L, module_id) ==
    LET named == arena_index(L.globals, module_id)
    IN named.some /\ named.val.kind = "Module"

instantiate_by_id(L, module_id, obj) ==
    InstantiationList_instantiate(arena_index(L.globals, module_id).val, <<>>, obj)

(***************************************************************************)
(* The state machine.                                                      *)
(***************************************************************************)
TheLinker == [globals |-> globals, global_namespace |-> global_namespace, files |-> files]

SetLinker(L) ==
    /\ globals' = L.globals
    /\ global_namespace' = L.global_namespace
    /\ files' = L.files

\* What a completed recompile leaves: every file's diagnostics and every
\* module's instances.
Snapshot(L) ==
    [diagnostics |-> [f \in LiveFiles(L.files) |-> get_all_errors_in_file(L, f)],
     units |-> [g \in Modules(L.globals) |-> Slot(L.globals, g).errors],
     instances |-> [g \in Modules(L.globals) |-> Slot(L.globals, g).instantiations]]

SetLinkerInit(L) ==
    /\ globals = L.globals
    /\ global_namespace = L.global_namespace
    /\ files = L.files

Idle == ~fatal /\ todo = <<>>

Init ==
    /\ globals = Linker_new.globals
    /\ global_namespace = Linker_new.global_namespace
    /\ files = Linker_new.files
    /\ fatal = FALSE
    /\ todo = <<>>
    /\ next_obj = 0
    /\ recompiles = 0
    /\ history = <<>>
    /\ last = [op |-> "new"]
    /\ bound_resolver = None
    /\ checkpoint_log = {}
    /\ upto = NotGiven
    /\ name_context = new_initial
    /\ frame_saves = <<>>

AddFile ==
    /\ Idle
    /\ \E file_identifier \in FileIdentifiers, text \in ParseResults :
        /\ Len(files) < MaxFileSlots
        /\ Len(globals) + Len(text) <= MaxGlobals
        /\ IF add_file_asserts(TheLinker, file_identifier)
           THEN /\ SetLinker(add_file(TheLinker, file_identifier, text))
                /\ fatal' = FALSE
                /\ history' = <<>>
                /\ last' = [op |-> "add_file", file |-> arena_next_id(files),
                            file_identifier |-> file_identifier]
           ELSE /\ fatal' = TRUE
                /\ last' = [op |-> "add_file", file |-> NoFile,
                            file_identifier |-> file_identifier]
                /\ UNCHANGED <<globals, global_namespace, files, history>>
    /\ UNCHANGED <<todo, next_obj, recompiles,
                    bound_resolver, checkpoint_log, upto, name_context, frame_saves>>

UpdateFile ==
    /\ Idle
    /\ \E file_id \in LiveFiles(files), text \in ParseResults :
        /\ Len(globals) + Len(text) <= MaxGlobals
        /\ SetLinker(update_file(TheLinker, text, file_id))
        /\ last' = [op |-> "update_file", file |-> file_id]
    /\ history' = <<>>
    /\ UNCHANGED <<fatal, todo, next_obj, recompiles,
                    bound_resolver, checkpoint_log, upto, name_context, frame_saves>>

RemoveFiles ==
    /\ Idle
    /\ \E F \in (SUBSET LiveFiles(files)) \ {{}} :
        /\ SetLinker(remove_files(TheLinker, SetToSeq(F)))
        /\ last' = [op |-> "remove_files", removed |-> F]
    /\ history' = <<>>
    /\ UNCHANGED <<fatal, todo, next_obj, recompiles,
                    bound_resolver, checkpoint_log, upto, name_context, frame_saves>>

RecompileAll ==
    /\ Idle
    /\ recompiles < MaxRecompiles
    /\ todo' = recompile_all_steps(TheLinker)
    /\ recompiles' = recompiles + 1
    /\ last' = [op |-> "recompile_all"]
    /\ UNCHANGED <<globals, global_namespace, files, fatal, next_obj, history,
                    bound_resolver, checkpoint_log, upto, name_context, frame_saves>>

SetModule(id, md) == globals' = [globals EXCEPT ![id + 1] = md]

RecompileReset ==
    /\ ~fatal /\ todo # <<>> /\ Head(todo).stage = "Reset"
    /\ SetModule(Head(todo).id, recompile_reset(Slot(globals, Head(todo).id)))
    /\ todo' = Tail(todo)
    /\ last' = [op |-> "step", task |-> Head(todo), before |-> Slot(globals, Head(todo).id)]
    /\ UNCHANGED <<global_namespace, files, fatal, next_obj, recompiles, history,
                    bound_resolver, checkpoint_log, upto, name_context, frame_saves>>

RecompileFlatten ==
    /\ ~fatal /\ todo # <<>> /\ Head(todo).stage = "Flatten"
    /\ IF reabsorb_asserts(take_errors_globals(Slot(globals, Head(todo).id)).md, AFTER_FLATTEN_CP)
       THEN /\ SetModule(Head(todo).id, flatten_module(TheLinker, Head(todo).id))
            /\ todo' = Tail(todo)
            /\ UNCHANGED fatal
       ELSE /\ fatal' = TRUE
            /\ UNCHANGED <<globals, todo>>
    /\ last' = [op |-> "step", task |-> Head(todo)]
    /\ UNCHANGED <<global_namespace, files, next_obj, recompiles, history,
                    bound_resolver, checkpoint_log, upto, name_context, frame_saves>>

\* recompile_all reads config().debug_print_module_contents: it goes on with
\* a configuration, and the process ends where config() gives none.
RecompileConfig ==
    /\ ~fatal /\ todo # <<>> /\ Head(todo).stage = "Config"
    /\ IF config(upto).tag = "Config"
       THEN /\ todo' = Tail(todo)
            /\ UNCHANGED fatal
       ELSE /\ fatal' = TRUE
            /\ UNCHANGED todo
    /\ last' = [op |-> "step", task |-> Head(todo), config |-> config(upto)]
    /\ UNCHANGED <<globals, global_namespace, files, next_obj, recompiles, history,
                    bound_resolver, checkpoint_log, upto, name_context, frame_saves>>

\* The steps of compiler_top.rs's recompile_all after the first read of
\* config(). No command line gets a configuration out of config(), so no
\* session takes them.
RecompileTypecheck ==
    /\ ~fatal /\ todo # <<>> /\ Head(todo).stage = "Typecheck"
    /\ IF reabsorb_asserts(take_errors_globals(Slot(globals, Head(todo).id)).md, AFTER_TYPECHECK_CP)
       THEN /\ SetModule(Head(todo).id, typecheck_module(TheLinker, Head(todo).id))
            /\ todo' = Tail(todo)
            /\ UNCHANGED fatal
       ELSE /\ fatal' = TRUE
            /\ UNCHANGED <<globals, todo>>
    /\ last' = [op |-> "step", task |-> Head(todo)]
    /\ UNCHANGED <<global_namespace, files, next_obj, recompiles, history,
                    bound_resolver, checkpoint_log, upto, name_context, frame_saves>>

RecompileInstantiate ==
    /\ ~fatal /\ todo # <<>> /\ Head(todo).stage = "Instantiate"
    /\ LET out == recompile_instantiate(Slot(globals, Head(todo).id), next_obj) IN
        /\ SetModule(Head(todo).id, out.md)
        /\ next_obj' = IF out.created THEN next_obj + 1 ELSE next_obj
    /\ todo' = Tail(todo)
    /\ last' = [op |-> "step", task |-> Head(todo)]
    /\ UNCHANGED <<global_namespace, files, fatal, recompiles, history,
                    bound_resolver, checkpoint_log, upto, name_context, frame_saves>>

\* recompile_all returns: what it leaves is recorded.
RecompileReturn ==
    /\ ~fatal /\ todo # <<>> /\ Head(todo).stage = "Return"
    /\ todo' = Tail(todo)
    /\ history' = IF Len(history) < 2
                  THEN Append(history, Snapshot(TheLinker))
                  ELSE <<history[2], Snapshot(TheLinker)>>
    /\ last' = [op |-> "step", task |-> Head(todo)]
    /\ UNCHANGED <<globals, global_namespace, files, fatal, next_obj, recompiles,
                    bound_resolver, checkpoint_log, upto, name_context, frame_saves>>

\* Linker::recompile_all of linker.rs.
RecompileAllOfLinker ==
    /\ Idle
    /\ recompiles < MaxRecompiles
    /\ todo' = recompile_all_of_linker_steps(TheLinker)
    /\ recompiles' = recompiles + 1
    /\ last' = [op |-> "recompile_all"]
    /\ UNCHANGED <<globals, global_namespace, files, fatal, next_obj, history,
                    bound_resolver, checkpoint_log, upto, name_context, frame_saves>>

RecompileModule ==
    /\ ~fatal /\ todo # <<>> /\ Head(todo).stage = "Module"
    /\ SetModule(Head(todo).id, recompile_module(TheLinker, Head(todo).id))
    /\ todo' = Tail(todo)
    /\ last' = [op |-> "step", task |-> Head(todo), before |-> Slot(globals, Head(todo).id)]
    /\ UNCHANGED <<global_namespace, files, fatal, next_obj, recompiles, history,
                    bound_resolver, checkpoint_log, upto, name_context, frame_saves>>

RecompileInstantiateId ==
    /\ ~fatal /\ todo # <<>> /\ Head(todo).stage = "InstantiateId"
    /\ LET out == instantiate_by_id(TheLinker, Head(todo).id, next_obj) IN
        /\ SetModule(Head(todo).id, out.md)
        /\ next_obj' = IF out.created THEN next_obj + 1 ELSE next_obj
    /\ todo' = Tail(todo)
    /\ last' = [op |-> "step", task |-> Head(todo)]
    /\ UNCHANGED <<global_namespace, files, fatal, recompiles, history,
                    bound_resolver, checkpoint_log, upto, name_context, frame_saves>>

ConcreteArgValues == {NotProvided, "V1", "V2"}

ConcreteArgs(md) == [DOMAIN md.template_arguments -> ConcreteArgValues]

\* The use sites a validation is asked for.
UseSites == {<<0, 0>>, <<0, 1>>}

\* check_all_template_args_valid applied to a module and an argument tuple
\* for its formals: what it returns and the errors it emits.
CheckAllTemplateArgsValid ==
    /\ Idle
    /\ \E module_id \in Modules(globals), span \in UseSites :
       \E template_args \in ConcreteArgs(Slot(globals, module_id)) :
        LET valid == check_all_template_args_valid(span, Slot(globals, module_id), template_args)
        IN last' = [op |-> "check_all_template_args_valid", id |-> module_id,
                    span |-> span, args |-> template_args,
                    valid |-> valid.ok, errors |-> valid.errors]
    /\ UNCHANGED <<globals, global_namespace, files, fatal, todo, next_obj, recompiles,
                    history, bound_resolver, checkpoint_log, upto, name_context, frame_saves>>

(***************************************************************************)
(* The driver working by ids it holds: ids of files it reserved, filled or *)
(* removed, and ids of entities of any of them.                            *)
(***************************************************************************)
IssuedFiles(fs) == 0..(Len(fs) - 1)

\* The parse results the driver hands over in such a session.
ReservedParseResults ==
    {<<>>} \cup
    {text \in ParseResults : Head(text).refs = <<>> /\ Head(text).name \in UserNames}

\* The lists of file ids the driver passes to a removal: ids in any order,
\* an id possibly more than once.
RECURSIVE ListsOver(_, _)
ListsOver(S, n) ==
    IF n = 0 THEN {<<>>}
    ELSE LET shorter == ListsOver(S, n - 1)
         IN shorter \cup {Append(l, x) : l \in shorter, x \in S}

FileIdLists(fs) == ListsOver(IssuedFiles(fs), MaxRemoved) \ {<<>>}

ReserveFile ==
    /\ Idle
    /\ Len(files) < MaxReserved
    /\ SetLinker(reserve_file(TheLinker))
    /\ last' = [op |-> "reserve_file", file |-> Len(files)]
    /\ UNCHANGED <<fatal, todo, next_obj, recompiles, history,
                    bound_resolver, checkpoint_log, upto, name_context, frame_saves>>

AddReservedFile ==
    /\ Idle
    /\ \E file \in IssuedFiles(files), parse_result \in ReservedParseResults :
        /\ Len(globals) + Len(parse_result) <= MaxReservedGlobals
        /\ last' = [op |-> "add_reserved_file", file |-> file]
        /\ IF add_reserved_file_asserts(TheLinker, file)
           THEN /\ SetLinker(add_reserved_file(TheLinker, file, parse_result))
                /\ UNCHANGED fatal
           ELSE /\ fatal' = TRUE
                /\ SetLinker(add_reserved_file_stopped(TheLinker, file, parse_result))
    /\ UNCHANGED <<todo, next_obj, recompiles, history,
                    bound_resolver, checkpoint_log, upto, name_context, frame_saves>>

Relink ==
    /\ Idle
    /\ \E file \in IssuedFiles(files), parse_result \in ReservedParseResults :
        /\ Len(globals) + Len(parse_result) <= MaxReservedGlobals
        /\ last' = [op |-> "relink", file |-> file]
        /\ IF remove_file_datas_asserts(TheLinker, <<file>>)
           THEN /\ SetLinker(relink(TheLinker, file, parse_result))
                /\ UNCHANGED fatal
           ELSE /\ fatal' = TRUE
                /\ SetLinker(remove_file_datas_stopped(TheLinker, <<file>>))
    /\ UNCHANGED <<todo, next_obj, recompiles, history,
                    bound_resolver, checkpoint_log, upto, name_context, frame_saves>>

RemoveFilesById ==
    /\ Idle
    /\ \E file_ids \in FileIdLists(files) :
        /\ last' = [op |-> "remove_files", removed |-> Range(file_ids), list |-> file_ids]
        /\ IF remove_files_asserts(TheLinker, file_ids)
           THEN /\ SetLinker(remove_files(TheLinker, file_ids))
                /\ UNCHANGED fatal
           ELSE /\ fatal' = TRUE
                /\ SetLinker(remove_files_stopped(TheLinker, file_ids))
    /\ UNCHANGED <<todo, next_obj, recompiles, history,
                    bound_resolver, checkpoint_log, upto, name_context, frame_saves>>

\* remove_file_datas called on its own: the files keep their records and
\* their lists.
RemoveFileDatas ==
    /\ Idle
    /\ \E file_ids \in FileIdLists(files) :
        /\ last' = [op |-> "remove_file_datas", removed |-> Range(file_ids), list |-> file_ids]
        /\ IF remove_file_datas_asserts(TheLinker, file_ids)
           THEN /\ SetLinker(remove_file_datas(TheLinker, file_ids))
                /\ UNCHANGED fatal
           ELSE /\ fatal' = TRUE
                /\ SetLinker(remove_file_datas_stopped(TheLinker, file_ids))
    /\ UNCHANGED <<todo, next_obj, recompiles, history,
                    bound_resolver, checkpoint_log, upto, name_context, frame_saves>>

\* Linker::instantiate for any id the arena has issued.
InstantiateById ==
    /\ Idle
    /\ \E module_id \in 0..(Len(globals) - 1) :
        IF instantiate_asserts(TheLinker, module_id)
        THEN LET out == instantiate_by_id(TheLinker, module_id, next_obj)
             IN /\ out.created => next_obj < MaxInstances
                /\ SetModule(module_id, out.md)
                /\ next_obj' = IF out.created THEN next_obj + 1 ELSE next_obj
                /\ last' = [op |-> "instantiate", id |-> module_id, args |-> <<>>,
                            result |-> Some(out.result), created |-> out.created]
                /\ UNCHANGED fatal
        ELSE /\ fatal' = TRUE
             /\ last' = [op |-> "instantiate", id |-> module_id, args |-> <<>>,
                         result |-> None, created |-> FALSE]
             /\ UNCHANGED <<globals, next_obj>>
    /\ UNCHANGED <<global_namespace, files, todo, recompiles, history,
                    bound_resolver, checkpoint_log, upto, name_context, frame_saves>>

NextArena ==
    \/ ReserveFile
    \/ AddReservedFile
    \/ Relink
    \/ RemoveFilesById
    \/ RemoveFileDatas
    \/ InstantiateById

ArenaSpec == Init /\ [][NextArena]_vars

(***************************************************************************)
(* Flattening a body: declarations are added, blocks open a frame and      *)
(* close it with the value new_frame gave them, names are looked up.       *)
(***************************************************************************)
LocalIds == 0..(MaxLocalIds - 1)

\* The flattener declares under an id no entry of the stack carries.
FreshLocalIds == LocalIds \ {name_context.local_stack[i][2] : i \in DOMAIN name_context.local_stack}

AddDeclaration ==
    /\ ~fatal
    /\ \E new_local_name \in LocalNames, new_local_unique_id \in FreshLocalIds :
        LET out == add_declaration(name_context, new_local_name, new_local_unique_id) IN
        /\ name_context' = out.ctx
        /\ last' = [op |-> "add_declaration", name |-> new_local_name,
                    id |-> new_local_unique_id, result |-> out.result]
    /\ UNCHANGED <<globals, global_namespace, files, fatal, todo, next_obj, recompiles,
                    history, bound_resolver, checkpoint_log, upto, frame_saves>>

GetDeclarationFor ==
    /\ ~fatal
    /\ \E name \in LocalNames :
        last' = [op |-> "get_declaration_for", name |-> name,
                 result |-> get_declaration_for(name_context, name)]
    /\ UNCHANGED <<globals, global_namespace, files, fatal, todo, next_obj, recompiles,
                    history, bound_resolver, checkpoint_log, upto, name_context,
                    frame_saves>>

NewFrame ==
    /\ ~fatal
    /\ Len(frame_saves) < MaxFrames
    /\ name_context' = new_frame(name_context).ctx
    /\ frame_saves' = Append(frame_saves, [save |-> new_frame(name_context).result,
                                            local_stack |-> name_context.local_stack])
    /\ last' = [op |-> "new_frame", result |-> new_frame(name_context).result]
    /\ UNCHANGED <<globals, global_namespace, files, fatal, todo, next_obj, recompiles,
                    history, bound_resolver, checkpoint_log, upto>>

\* The innermost open frame is closed.
PopFrame ==
    /\ ~fatal
    /\ frame_saves # <<>>
    /\ LET prev_save == frame_saves[Len(frame_saves)].save IN
        /\ last' = [op |-> "pop_frame", prev_save |-> prev_save,
                    dropped |-> Len(name_context.local_stack) - prev_save]
        /\ frame_saves' = SubSeq(frame_saves, 1, Len(frame_saves) - 1)
        /\ IF pop_frame_asserts(name_context, prev_save)
           THEN /\ name_context' = pop_frame(name_context, prev_save)
                /\ UNCHANGED fatal
           ELSE /\ fatal' = TRUE
                /\ UNCHANGED name_context
    /\ UNCHANGED <<globals, global_namespace, files, todo, next_obj, recompiles,
                    history, bound_resolver, checkpoint_log, upto>>

NextScope ==
    \/ AddDeclaration
    \/ GetDeclarationFor
    \/ NewFrame
    \/ PopFrame

ScopeSpec == Init /\ [][NextScope]_vars

(***************************************************************************)
(* A session of edits: files are added, updated and removed.               *)
(***************************************************************************)
Next ==
    \/ AddFile
    \/ UpdateFile
    \/ RemoveFiles

Spec == Init /\ [][Next]_vars

(***************************************************************************)
(* A session of the compiler driver: the files of a project are added,     *)
(* then the project is recompiled and edited.                              *)
(***************************************************************************)
Projects == {
    << <<"f1", << Decl("A", <<"A">>, <<>>, 1, TRUE) >> >>,
       <<"f2", << Decl("A", <<>>, <<>>, 0, FALSE) >> >> >>,
    << <<"f1", << Decl("bool", <<"bool">>, <<>>, 0, FALSE) >> >>,
       <<"f2", << Decl("B", <<"int", "C">>, <<"T">>, 0, TRUE) >> >> >>,
    << <<"f1", << Decl("A", <<>>, <<>>, 0, TRUE), Decl("B", <<"A">>, <<>>, 1, FALSE) >> >> >>
}

RECURSIVE load_project(_, _)
load_project(L, project) ==
    IF project = <<>> THEN L
    ELSE load_project(add_file(L, Head(project)[1], Head(project)[2]), Tail(project))

InitCompile ==
    \E project \in Projects :
        /\ SetLinkerInit(load_project(Linker_new, project))
        /\ fatal = FALSE
        /\ todo = <<>>
        /\ next_obj = 0
        /\ recompiles = 0
        /\ history = <<>>
        /\ last = [op |-> "add_file", file |-> Len(project) - 1]
        /\ bound_resolver = None
        /\ checkpoint_log = {}
        /\ upto = NotGiven
        /\ name_context = new_initial
        /\ frame_saves = <<>>
    /\ upto = NotGiven
    /\ name_context = new_initial
    /\ frame_saves = <<>>

NextCompile ==
    \/ UpdateFile
    \/ RemoveFiles
    \/ RecompileAll
    \/ RecompileReset
    \/ RecompileFlatten
    \/ RecompileConfig
    \/ RecompileAllOfLinker
    \/ RecompileModule
    \/ RecompileInstantiateId
    \/ RecompileReturn

CompileSpec == InitCompile /\ [][NextCompile]_vars

(***************************************************************************)
(* Recompiles of a project in a process started with any --upto.           *)
(***************************************************************************)
InitEarlyExit ==
    \E project \in Projects :
        /\ SetLinkerInit(load_project(Linker_new, project))
        /\ fatal = FALSE
        /\ todo = <<>>
        /\ next_obj = 0
        /\ recompiles = 0
        /\ history = <<>>
        /\ last = [op |-> "add_file", file |-> Len(project) - 1]
        /\ bound_resolver = None
        /\ checkpoint_log = {}
        /\ upto \in UptoArguments
        /\ name_context = new_initial
        /\ frame_saves = <<>>

NextEarlyExit ==
    \/ RecompileAll
    \/ RecompileReset
    \/ RecompileFlatten
    \/ RecompileConfig
    \/ RecompileAllOfLinker
    \/ RecompileModule
    \/ RecompileInstantiateId
    \/ RecompileReturn

EarlyExitSpec == InitEarlyExit /\ [][NextEarlyExit]_vars

(***************************************************************************)
(* A session of instantiation requests: a project with generic modules is  *)
(* recompiled and the driver asks for instances of them.                   *)
(***************************************************************************)
TemplateProjects == {
    << <<"f1", << Decl("A", <<>>, <<"T", "U">>, 0, FALSE),
                  Decl("B", <<"A">>, <<>>, 0, TRUE) >> >> >>,
    << <<"f1", << Decl("C", <<"int">>, <<"T", "U", "V">>, 0, TRUE) >> >> >>
}

InitTemplate ==
    \E project \in TemplateProjects :
        /\ SetLinkerInit(load_project(Linker_new, project))
        /\ fatal = FALSE
        /\ todo = <<>>
        /\ next_obj = 0
        /\ recompiles = 0
        /\ history = <<>>
        /\ last = [op |-> "add_file", file |-> Len(project) - 1]
        /\ bound_resolver = None
        /\ checkpoint_log = {}
        /\ upto = NotGiven
        /\ name_context = new_initial
        /\ frame_saves = <<>>
    /\ upto = NotGiven
    /\ name_context = new_initial
    /\ frame_saves = <<>>

NextTemplate ==
    \/ RecompileAll
    \/ RecompileReset
    \/ RecompileFlatten
    \/ RecompileConfig
    \/ RecompileAllOfLinker
    \/ RecompileModule
    \/ RecompileInstantiateId
    \/ RecompileReturn
    \/ InstantiateById
    \/ CheckAllTemplateArgsValid

TemplateSpec == InitTemplate /\ [][NextTemplate]_vars

(***************************************************************************)
(* A session of analysis: a resolver is bound to a unit of a project, the  *)
(* analysis resolves names and reads entities through it, the results are  *)
(* reabsorbed under a checkpoint, and units are reset to checkpoints.      *)
(***************************************************************************)
\* The identifiers a body under analysis mentions; identifier k of the
\* module declared at decl_idx sits at span <<decl_idx, k>>.
ResolverIdentifiers == <<"A", "B", "int", "bool">>

\* The entities the analysis reads by id.
AccessIds(gs) == {g \in LiveGlobals(gs) : Slot(gs, g).name \in Range(ResolverIdentifiers)}

StoreSize(errors, resolved_globals) == Len(errors) + Len(resolved_globals.referenced_globals)

\* What the units hold beyond what declaration gathering left.
RECURSIVE UnitsSize(_, _)
UnitsSize(gs, ids) ==
    IF ids = <<>> THEN 0
    ELSE StoreSize(Slot(gs, Head(ids)).errors, Slot(gs, Head(ids)).resolved_globals)
         - Slot(gs, Head(ids)).after_initial_parse_cp.errors_cp
         + UnitsSize(gs, Tail(ids))

AnalysisSize ==
    UnitsSize(globals, SetToSeq(Modules(globals)))
    + IF bound_resolver.some
      THEN StoreSize(bound_resolver.val.r.errors, bound_resolver.val.r.resolved_globals)
      ELSE 0

CanGrow(n) == AnalysisSize + n <= MaxAnalysis

Bound == ~fatal /\ bound_resolver.some

BoundUnit == Slot(globals, bound_resolver.val.unit)

Rebind(r) == bound_resolver' = Some([unit |-> bound_resolver.val.unit, r |-> r])

CheckpointEntry(unit, md) ==
    [unit |-> unit, index |-> Len(md.checkpoints),
     errors |-> md.errors, resolved_globals |-> md.resolved_globals]

InitResolver ==
    \E project \in Projects :
        /\ SetLinkerInit(load_project(Linker_new, project))
        /\ fatal = FALSE
        /\ todo = <<>>
        /\ next_obj = 0
        /\ recompiles = 0
        /\ history = <<>>
        /\ last = [op |-> "add_file", file |-> Len(project) - 1]
        /\ bound_resolver = None
        /\ checkpoint_log = {CheckpointEntry(g, Slot(globals, g)) : g \in Modules(globals)}
        /\ upto = NotGiven
        /\ name_context = new_initial
        /\ frame_saves = <<>>

\* GlobalResolver::take_errors_globals and GlobalResolver::new. A resolver
\* may also be made from fresh stores, the unit keeping its own.
BindResolver ==
    /\ ~fatal
    /\ bound_resolver = None
    /\ \E unit \in Modules(globals), taken \in BOOLEAN :
        LET t == take_errors_globals(Slot(globals, unit)) IN
        /\ IF taken
           THEN /\ SetModule(unit, t.md)
                /\ bound_resolver' = Some([unit |-> unit, r |-> GlobalResolver_new(t.taken)])
           ELSE /\ t.md # Slot(globals, unit)
                /\ UNCHANGED globals
                /\ bound_resolver' = Some([unit |-> unit, r |-> GlobalResolver_new(
                        [errors |-> ErrorStore_new, resolved_globals |-> ResolvedGlobals_empty])])
        /\ last' = [op |-> "bind", unit |-> unit, taken |-> taken]
    /\ UNCHANGED <<global_namespace, files, fatal, todo, next_obj, recompiles, history,
                    checkpoint_log, upto, name_context, frame_saves>>

ResolveGlobal ==
    /\ Bound
    /\ CanGrow(1)
    /\ \E k \in DOMAIN ResolverIdentifiers :
        LET name_span == <<BoundUnit.decl_idx, k>>
            out == resolve_global(TheLinker, bound_resolver.val.r, ResolverIdentifiers[k], name_span)
        IN /\ Rebind(out.resolver)
           /\ last' = [op |-> "resolve_global", name |-> ResolverIdentifiers[k],
                       span |-> name_span, result |-> out.result]
    /\ UNCHANGED <<globals, global_namespace, files, fatal, todo, next_obj, recompiles,
                    history, checkpoint_log, upto, name_context, frame_saves>>

IndexAccess ==
    /\ Bound
    /\ CanGrow(1)
    /\ \E index \in AccessIds(globals) :
        /\ Rebind(GlobalResolver_index(bound_resolver.val.r, index))
        /\ last' = [op |-> "index", id |-> index]
    /\ UNCHANGED <<globals, global_namespace, files, fatal, todo, next_obj, recompiles,
                    history, checkpoint_log, upto, name_context, frame_saves>>

GetLinkInfo ==
    /\ Bound
    /\ CanGrow(1)
    /\ \E id \in AccessIds(globals) :
        /\ HasLinkInfo(Slot(globals, id))
        /\ Rebind(get_link_info(bound_resolver.val.r, id))
        /\ last' = [op |-> "get_link_info", id |-> id]
    /\ UNCHANGED <<globals, global_namespace, files, fatal, todo, next_obj, recompiles,
                    history, checkpoint_log, upto, name_context, frame_saves>>

IsModule ==
    /\ Bound
    /\ \E uuid \in AccessIds(globals) :
        LET out == is_module(TheLinker, bound_resolver.val.r, uuid) IN
        /\ Rebind(out.resolver)
        /\ last' = [op |-> "is_module", id |-> uuid, result |-> out.result]
    /\ UNCHANGED <<globals, global_namespace, files, fatal, todo, next_obj, recompiles,
                    history, checkpoint_log, upto, name_context, frame_saves>>

GetModule ==
    /\ Bound
    /\ \E uuid \in AccessIds(globals) :
        IF get_module_asserts(TheLinker, uuid)
        THEN LET out == get_module(TheLinker, bound_resolver.val.r, uuid) IN
             /\ Rebind(out.resolver)
             /\ last' = [op |-> "get_module", id |-> uuid, result |-> Some(out.result)]
             /\ UNCHANGED fatal
        ELSE /\ fatal' = TRUE
             /\ last' = [op |-> "get_module", id |-> uuid, result |-> None]
             /\ UNCHANGED bound_resolver
    /\ UNCHANGED <<globals, global_namespace, files, todo, next_obj, recompiles,
                    history, checkpoint_log, upto, name_context, frame_saves>>

NotExpectedGlobalError ==
    /\ Bound
    /\ CanGrow(1)
    /\ \E k \in DOMAIN ResolverIdentifiers, expected \in {"Type", "Constant"} :
        \E id \in AccessIds(globals) :
            LET global_ref == GlobalReference(<<BoundUnit.decl_idx, k>>, id) IN
            /\ Slot(globals, id).name = ResolverIdentifiers[k]
            /\ Rebind(not_expected_global_error(TheLinker, bound_resolver.val.r,
                                                 global_ref, expected))
            /\ last' = [op |-> "not_expected_global_error", id |-> id,
                        span |-> global_ref.name_span, expected |-> expected]
    /\ UNCHANGED <<globals, global_namespace, files, fatal, todo, next_obj, recompiles,
                    history, checkpoint_log, upto, name_context, frame_saves>>

TryGet ==
    /\ Bound
    /\ CanGrow(2)
    /\ \E k \in DOMAIN ResolverIdentifiers, expected \in {"Module", "Type", "Constant"} :
        LET identifier_span == <<BoundUnit.decl_idx, k>>
            out == try_get(TheLinker, bound_resolver.val.r, identifier_span,
                           ResolverIdentifiers[k], expected)
        IN /\ Rebind(out.resolver)
           /\ last' = [op |-> "try_get", name |-> ResolverIdentifiers[k],
                       span |-> identifier_span, expected |-> expected,
                       result |-> out.result]
    /\ UNCHANGED <<globals, global_namespace, files, fatal, todo, next_obj, recompiles,
                    history, checkpoint_log, upto, name_context, frame_saves>>

\* GlobalResolver::decommission and LinkInfo::reabsorb_errors_globals.
Reabsorb ==
    /\ Bound
    /\ \E checkpoint_id \in {AFTER_INITIAL_PARSE_CP, AFTER_FLATTEN_CP, AFTER_TYPECHECK_CP} :
        LET unit == bound_resolver.val.unit
            md == reabsorb_errors_globals(BoundUnit, decommission(bound_resolver.val.r),
                                          checkpoint_id)
        IN IF reabsorb_asserts(BoundUnit, checkpoint_id)
           THEN /\ SetModule(unit, md)
                /\ bound_resolver' = None
                /\ checkpoint_log' = checkpoint_log \cup {CheckpointEntry(unit, md)}
                /\ last' = [op |-> "reabsorb", unit |-> unit,
                            checkpoint_id |-> checkpoint_id, ok |-> TRUE]
                /\ UNCHANGED fatal
           ELSE /\ fatal' = TRUE
                /\ last' = [op |-> "reabsorb", unit |-> unit,
                            checkpoint_id |-> checkpoint_id, ok |-> FALSE]
                /\ UNCHANGED <<globals, bound_resolver, checkpoint_log>>
    /\ UNCHANGED <<global_namespace, files, todo, next_obj, recompiles, history, upto, name_context, frame_saves>>

\* LinkInfo::reset_to, on one of the unit's checkpoints.
ResetTo ==
    /\ ~fatal
    /\ bound_resolver = None
    /\ \E unit \in Modules(globals) :
       \E i \in DOMAIN Slot(globals, unit).checkpoints :
        LET md == LinkInfo_reset_to(Slot(globals, unit), Slot(globals, unit).checkpoints[i]) IN
        /\ SetModule(unit, md)
        /\ checkpoint_log' = {e \in checkpoint_log :
                                 e.unit = unit => e.index <= Len(md.checkpoints)}
        /\ last' = [op |-> "reset_to", unit |-> unit, index |-> i,
                    before |-> [errors |-> Slot(globals, unit).errors,
                                resolved_globals |-> Slot(globals, unit).resolved_globals]]
    /\ UNCHANGED <<global_namespace, files, fatal, todo, next_obj, recompiles, history,
                    bound_resolver, upto, name_context, frame_saves>>

NextResolver ==
    \/ BindResolver
    \/ ResolveGlobal
    \/ IndexAccess
    \/ GetLinkInfo
    \/ Reabsorb
    \/ ResetTo

ResolverSpec == InitResolver /\ [][NextResolver]_vars

(***************************************************************************)
(* A session of lookups: the analysis of one unit reads entities by id and *)
(* looks names up by kind.                                                 *)
(***************************************************************************)
NextLookup ==
    \/ BindResolver
    \/ IndexAccess
    \/ GetLinkInfo
    \/ IsModule
    \/ GetModule
    \/ NotExpectedGlobalError
    \/ TryGet

LookupSpec == InitResolver /\ [][NextLookup]_vars

(***************************************************************************)
(* Properties of the namespace and of the file registry.                   *)
(***************************************************************************)
\* The live declarations of a name: the builtin and the modules of live files.
Declarations(gs, n) == {g \in LiveGlobals(gs) : Slot(gs, g).name = n}

UserDeclarations(gs, n) == {g \in Declarations(gs, n) : HasLinkInfo(Slot(gs, g))}

NoDuplicates(s) == \A i, j \in DOMAIN s : s[i] = s[j] => i = j

\* C1: every name of the namespace maps to a single live entity or to a
\* collision of at least two distinct live entities.
C1_BucketsAreSingleOrCollision ==
    \A n \in Names :
        LET e == global_namespace[n] IN
        \/ e.tag = "Vacant"
        \/ e.tag = "Global" /\ IsLiveGlobal(globals, e.ids[1])
        \/ /\ e.tag = "Colission"
           /\ Len(e.ids) >= 2
           /\ NoDuplicates(e.ids)
           /\ \A i \in DOMAIN e.ids : IsLiveGlobal(globals, e.ids[i])

\* C2: when exactly two files declare a name and remove_files removes one of
\* them, the name resolves directly to the surviving declaration; when it
\* removes both, the name is gone.
C2_RemovalRestoresResolution ==
    [][\A n \in Names :
        LET decls == Declarations(globals, n)
            gone == {g \in decls : ~IsLiveGlobal(globals', g)}
        IN (/\ last'.op = "remove_files"
            /\ Cardinality(decls) = 2
            /\ decls = UserDeclarations(globals, n)
            /\ \A g, h \in decls : g # h => Slot(globals, g).file # Slot(globals, h).file
            /\ gone # {})
           => IF gone = decls
              THEN global_namespace'[n] = Vacant
              ELSE \E survivor \in decls \ gone :
                      /\ global_namespace'[n] = Global(survivor)
                      /\ get_obj_id(global_namespace', n) = Some(survivor)
      ]_vars

\* The id Linker::new gives a builtin.
BuiltinId(n) ==
    IF n \in Range(BUILTIN_TYPES) THEN get_builtin_type(n) ELSE get_builtin_constant(n)

NewResolver == GlobalResolver_new([errors |-> ErrorStore_new,
                                   resolved_globals |-> ResolvedGlobals_empty])

\* C4: in every reachable state the name of a builtin resolves directly to
\* the builtin's own id.
C4_BuiltinsResolveDirectly ==
    \A n \in BuiltinNames :
        /\ get_obj_id(global_namespace, n) = Some(BuiltinId(n))
        /\ resolve_global(TheLinker, NewResolver, n, <<1, 1>>).result = Some(BuiltinId(n))

\* The errors get_duplicate_declaration_errors reports at a declaration.
DuplicateErrorsAt(g) ==
    {r \in get_duplicate_declaration_errors(TheLinker, Slot(globals, g).file) :
        r.error.position = Slot(globals, g).name_span}

\* C5: a user declaration named like a builtin gets exactly one error in the
\* report of its file, at the declaration, with the builtin message.
C5_RedeclaredBuiltinError ==
    \A g \in Modules(globals) :
        Slot(globals, g).name \in BuiltinNames =>
            /\ Cardinality(DuplicateErrorsAt(g)) = 1
            /\ \A r \in DuplicateErrorsAt(g) :
                r.error.reason = <<"Cannot redeclare the builtin", Slot(globals, g).name>>

\* C5, witness: a module named like a builtin is declared beside another
\* module of that name, and the report of its file holds the builtin error.
C5_Witness ==
    \E g \in Modules(globals) :
        /\ Slot(globals, g).name \in BuiltinNames
        /\ Cardinality(UserDeclarations(globals, Slot(globals, g).name)) >= 2
        /\ \E r \in DuplicateErrorsAt(g) :
            /\ r.error.reason[1] = "Cannot redeclare the builtin"
            /\ r.error.infos # <<>>

(***************************************************************************)
(* Properties of name resolution and of the recompile pipeline.            *)
(***************************************************************************)
Pending(stage) == {todo[i].id : i \in {j \in DOMAIN todo : todo[j].stage = stage}}

Recompiling == todo # <<>>

\* The results a module holds were computed from the present namespace: the
\* recompile under way has reset or replaced them, or a recompile has
\* returned with no edit since.
ResultsAreCurrent(u) ==
    IF Recompiling
    THEN u \notin Pending("Reset") \cup Pending("Module")
    ELSE history # <<>>

\* recompile_all has returned and nothing was edited since.
Returned == ~Recompiling /\ ~fatal /\ history # <<>>

\* The process has ended inside recompile_all.
Stopped == Recompiling /\ fatal

\* recompile_all is over, one way or the other.
Recompiled == Returned \/ Stopped

Flattened(g) == Slot(globals, g).after_flatten_cp.some
Typechecked(g) == Len(Slot(globals, g).checkpoints) > AFTER_TYPECHECK_CP
Instantiated(g) == Slot(globals, g).instantiations # <<>>

\* The errors of a unit at a span.
ErrorsAt(md, span) == {i \in DOMAIN md.errors : md.errors[i].position = span}

\* Where a global is declared.
DeclarationSite(g) == <<Slot(globals, g).name_span, Slot(globals, g).file>>

\* C3: a reference to a name with two or more live declarations resolves to
\* nothing, marks the unit incomplete and reports exactly one colliding-import
\* error at the reference, with one info label per declaration.
C3_CollidingImportError ==
        \A u \in Modules(globals) : (ResultsAreCurrent(u) /\ Flattened(u)) =>
            LET md == Slot(globals, u) IN
            \A k \in DOMAIN md.refs :
                LET decls == Declarations(globals, md.refs[k])
                    at == ErrorsAt(md, <<md.decl_idx, k>>)
                IN Cardinality(decls) >= 2 =>
                    /\ md.instructions[k] = None
                    /\ ~md.resolved_globals.all_resolved
                    /\ Cardinality(at) = 1
                    /\ \A i \in at :
                        /\ md.errors[i].reason =
                              <<"There were colliding imports for the name", md.refs[k]>>
                        /\ Len(md.errors[i].infos) = Cardinality(decls)
                        /\ {<<md.errors[i].infos[j].position, md.errors[i].infos[j].file>> :
                                j \in DOMAIN md.errors[i].infos}
                           = {DeclarationSite(g) : g \in decls}

\* C6: during recompile_all no module is typechecked before every module is
\* flattened, and none is instantiated before every module is typechecked;
\* a recompile that is over has taken every module through both stages.
C6_StagesCompleteForAll ==
    /\ (Recompiling /\ Pending("Reset") = {}) =>
            \A x, y \in Modules(globals) :
                /\ Typechecked(y) => Flattened(x)
                /\ Instantiated(y) => Typechecked(x)
    /\ Recompiled =>
            \A x \in Modules(globals) : Flattened(x) /\ Typechecked(x)

\* A module is as declaration gathering left it.
AsGathered(md) ==
    /\ Len(md.errors) = md.after_initial_parse_cp.errors_cp
    /\ \A i \in DOMAIN md.errors : md.errors[i].reason[1] = "declaration error"
    /\ ResolvedGlobals_checkpoint(md.resolved_globals)
          = md.after_initial_parse_cp.resolved_globals_cp
    /\ md.checkpoints = << md.after_initial_parse_cp >>
    /\ md.after_flatten_cp = None
    /\ md.instructions = <<>>
    /\ md.instantiations = <<>>

\* A module of the recompile under way has been flattened.
FlattenBegun ==
    Recompiling /\ (Pending("Reset") \cup Pending("Flatten") \cup Pending("Module")) # Modules(globals)

\* C7: from the end of recompile_all's reset loop, and in any case once a
\* module has been flattened, every module still to be flattened is back at
\* its checkpoint after declaration gathering, without instructions and
\* without instances, and every module still to be instantiated has an
\* empty cache.
C7_ResetBeforeFlatten ==
    /\ (Recompiling /\ Pending("Reset") = {}) =>
        /\ \A g \in Pending("Flatten") : AsGathered(Slot(globals, g))
        /\ \A g \in Pending("Instantiate") : Slot(globals, g).instantiations = <<>>
    /\ FlattenBegun =>
        /\ \A g \in Pending("Module") : AsGathered(Slot(globals, g))
        /\ \A g \in Pending("InstantiateId") : Slot(globals, g).instantiations = <<>>

\* C8: instantiate called with an argument tuple the cache holds returns the
\* cached instance, makes no new instance and changes no diagnostic.
C8_InstantiateIsMemoized ==
    [][(/\ last'.op = "instantiate"
        /\ instantiate_asserts(TheLinker, last'.id)
        /\ cache_find(Slot(globals, last'.id).instantiations, last'.args) # {})
       => /\ \E i \in cache_find(Slot(globals, last'.id).instantiations, last'.args) :
                last'.result = Some(Slot(globals, last'.id).instantiations[i])
          /\ next_obj' = next_obj
          /\ globals' = globals
      ]_vars

\* C8, witness: a call found its instance, one with a diagnostic, in the cache.
C8_Witness ==
    /\ last.op = "instantiate"
    /\ ~fatal
    /\ ~last.created
    /\ last.result.val.errors # <<>>
    /\ last.result.val.args = last.args
    /\ Returned

\* C9: two recompiles that return, with no file change in between, leave
\* the same diagnostics, in every file and in every unit: the same errors
\* in the same order with the same info labels.
C9_RecompileTwiceSameDiagnostics ==
    Len(history) = 2 =>
        /\ history[1].diagnostics = history[2].diagnostics
        /\ history[1].units = history[2].units

\* C9, witness: a project was recompiled twice in a row, and a unit of it
\* has diagnostics of flattening.
C9_Witness ==
    /\ Returned
    /\ recompiles = 2
    /\ Len(history) = 2
    /\ \E g \in Modules(globals) :
         /\ Len(Slot(globals, g).errors) > Slot(globals, g).after_initial_parse_cp.errors_cp
         /\ history[2].units[g] = Slot(globals, g).errors

\* C10: no recompile ends the process, and two recompiles with no file
\* change in between leave the very same instance objects.
C10_RecompileTwiceSameObjects ==
    /\ ~Stopped
    /\ Len(history) = 2 => history[1].instances = history[2].instances

(***************************************************************************)
(* Properties of eager instantiation and of template argument validation.  *)
(***************************************************************************)
\* C11: when recompile_all is over, every module without template parameters
\* is typechecked and holds exactly one instance, the one of the empty
\* argument tuple, and every module with template parameters holds none.
C11_EagerInstantiation ==
    Recompiled =>
        \A g \in Modules(globals) :
            LET made == Slot(globals, g).instantiations IN
            IF Slot(globals, g).template_arguments = <<>>
            THEN /\ Typechecked(g)
                 /\ Len(made) = 1
                 /\ made[1].args = <<>>
            ELSE made = <<>>

\* The formals of a module that an argument tuple leaves without argument,
\* in declaration order.
MissingFormals(template_args) ==
    SelectSeq([i \in DOMAIN template_args |-> i],
              LAMBDA i : template_args[i] = NotProvided)

\* Where formal i of a module is declared.
FormalSite(md, i) == <<<<md.decl_idx, -i>>, md.file>>

\* C12: check_all_template_args_valid accepts a tuple, without an error,
\* exactly when no formal is left NotProvided; otherwise it refuses with
\* exactly one error at the use site that names the target and every
\* missing formal in declaration order, with one info label per missing
\* formal at that formal's declaration.
C12_MissingTemplateArgsOneError ==
    last.op = "check_all_template_args_valid" =>
        LET md == Slot(globals, last.id)
            missing == MissingFormals(last.args)
        IN /\ last.valid <=> missing = <<>>
           /\ missing = <<>> => last.errors = <<>>
           /\ missing # <<>> =>
                /\ Len(last.errors) = 1
                /\ last.errors[1].position = last.span
                /\ last.errors[1].reason[1] = "Could not instantiate"
                /\ last.errors[1].reason[2] = md.name
                /\ last.errors[1].reason[3] =
                      [k \in DOMAIN missing |-> md.template_arguments[missing[k]]]
                /\ Len(last.errors[1].infos) = Len(missing)
                /\ \A k \in DOMAIN missing :
                      <<last.errors[1].infos[k].position, last.errors[1].infos[k].file>>
                          = FormalSite(md, missing[k])

\* C12, witness: a request that leaves two formals without argument, the
\* first and the last of three, was refused.
C12_Witness ==
    /\ last.op = "check_all_template_args_valid"
    /\ ~last.valid
    /\ MissingFormals(last.args) = <<1, 3>>
    /\ Len(last.errors) = 1

\* C13: every instance a cache holds has an argument for each template
\* parameter of its module, and none of them is NotProvided.
C13_NoInstanceOfMissingArgs ==
    \A g \in Modules(globals) :
        \A i \in DOMAIN Slot(globals, g).instantiations :
            \A k \in DOMAIN Slot(globals, g).template_arguments :
                /\ k \in DOMAIN Slot(globals, g).instantiations[i].args
                /\ Slot(globals, g).instantiations[i].args[k] # NotProvided

(***************************************************************************)
(* Properties of the resolver and of the checkpoints.                      *)
(***************************************************************************)
\* The resolver in use, before and after a step.
TheResolver == bound_resolver.val.r

IsPrefix(s, t) == Len(s) <= Len(t) /\ SubSeq(t, 1, Len(s)) = s

Untouched(md) ==
    /\ md.resolved_globals.referenced_globals = <<>>
    /\ md.resolved_globals.all_resolved
    /\ md.errors = <<>>

\* C14: reabsorb_errors_globals succeeds exactly when the unit's stores are
\* untouched and the checkpoint index is the number of checkpoints the unit
\* has; otherwise the process stops and the unit is left as it was.
C14_ReabsorbRequiresUntouched ==
    [][last'.op = "reabsorb" =>
        LET md == Slot(globals, last'.unit) IN
        IF Untouched(md) /\ last'.checkpoint_id = Len(md.checkpoints)
        THEN /\ last'.ok
             /\ ~fatal'
             /\ Len(Slot(globals', last'.unit).checkpoints) = Len(md.checkpoints) + 1
        ELSE /\ ~last'.ok
             /\ fatal'
             /\ globals' = globals
      ]_vars

\* C14, witness: a reabsorb with the expected checkpoint index has stopped
\* the process, the unit holding an error of its own.
C14_Witness ==
    /\ last.op = "reabsorb"
    /\ ~last.ok
    /\ fatal
    /\ last.checkpoint_id = Len(Slot(globals, last.unit).checkpoints)
    /\ Slot(globals, last.unit).errors # <<>>

\* C15: reset_to on a checkpoint gives the unit the error store, the
\* dependency list and the completeness flag it had when the checkpoint
\* was taken, whatever the analysis has added since.
C15_ResetToRoundTrip ==
    bound_resolver = None =>
        /\ \A e \in checkpoint_log :
            LET md == Slot(globals, e.unit) IN
            /\ e.index <= Len(md.checkpoints)
            /\ LinkInfo_reset_to(md, md.checkpoints[e.index]).errors = e.errors
            /\ LinkInfo_reset_to(md, md.checkpoints[e.index]).resolved_globals
                   = e.resolved_globals
        /\ last.op = "reset_to" =>
            \E e \in checkpoint_log :
                /\ e.unit = last.unit
                /\ e.index = Len(Slot(globals, last.unit).checkpoints)
                /\ e.errors = Slot(globals, last.unit).errors
                /\ e.resolved_globals = Slot(globals, last.unit).resolved_globals

\* C15, witness: a reset_to has taken back an error and a dependency and
\* has restored the completeness flag.
C15_Witness ==
    /\ last.op = "reset_to"
    /\ Len(last.before.errors) > Len(Slot(globals, last.unit).errors)
    /\ Len(last.before.resolved_globals.referenced_globals)
          > Len(Slot(globals, last.unit).resolved_globals.referenced_globals)
    /\ ~last.before.resolved_globals.all_resolved
    /\ Slot(globals, last.unit).resolved_globals.all_resolved

\* The dependency list and the completeness flag of a unit, wherever they
\* are held: in the unit, or in the resolver bound to it.
DependencyList(g) ==
    Slot(globals, g).resolved_globals.referenced_globals
    \o IF bound_resolver.some /\ bound_resolver.val.unit = g
       THEN TheResolver.resolved_globals.referenced_globals
       ELSE <<>>

AllResolved(g) ==
    /\ Slot(globals, g).resolved_globals.all_resolved
    /\ (bound_resolver.some /\ bound_resolver.val.unit = g)
           => TheResolver.resolved_globals.all_resolved

\* C16: no step other than reset_to removes an entry of a unit's dependency
\* list or turns its completeness flag from false to true.
C16_DependenciesOnlyGrow ==
    [][last'.op # "reset_to" =>
        \A g \in Modules(globals) :
            /\ IsPrefix(DependencyList(g), DependencyList(g)')
            /\ ~AllResolved(g) => ~AllResolved(g)'
      ]_vars

\* C16, witness: the analysis has gone on, by a recorded access, for a
\* unit whose list has an entry and whose flag is false.
C16_Witness ==
    /\ last.op \in {"index", "get_link_info"}
    /\ bound_resolver.some
    /\ DependencyList(bound_resolver.val.unit) # <<>>
    /\ ~AllResolved(bound_resolver.val.unit)

\* C17: resolve_global on a name of exactly one declaration returns its id,
\* appends it to the dependency list, reports nothing and leaves the flag;
\* on any other name it returns None, reports exactly one error at the
\* reference, clears the flag and appends nothing. It never stops the
\* process.
C17_ResolveGlobalOutcomes ==
    [][last'.op = "resolve_global" =>
        LET r == TheResolver
            after == TheResolver'
            decls == Declarations(globals, last'.name)
        IN /\ ~fatal'
           /\ IF Cardinality(decls) = 1
              THEN /\ \E g \in decls : last'.result = Some(g)
                   /\ after.resolved_globals.referenced_globals
                        = Append(r.resolved_globals.referenced_globals, last'.result.val)
                   /\ after.errors = r.errors
                   /\ after.resolved_globals.all_resolved = r.resolved_globals.all_resolved
              ELSE /\ last'.result = None
                   /\ Len(after.errors) = Len(r.errors) + 1
                   /\ IsPrefix(r.errors, after.errors)
                   /\ after.errors[Len(after.errors)].position = last'.span
                   /\ ~after.resolved_globals.all_resolved
                   /\ after.resolved_globals.referenced_globals
                        = r.resolved_globals.referenced_globals
      ]_vars

\* C17, witness: a name was resolved to its entity after another one had
\* failed to resolve because of a collision.
C17_Witness ==
    /\ last.op = "resolve_global"
    /\ last.result.some
    /\ bound_resolver.some
    /\ ~TheResolver.resolved_globals.all_resolved
    /\ \E i \in DOMAIN TheResolver.errors :
          TheResolver.errors[i].reason[1] = "There were colliding imports for the name"

\* C18: while a resolver is bound to a unit, no step changes another
\* entity, the namespace or the files; the analysis itself changes the
\* resolver only; and a reabsorb leaves the resolver's errors and
\* dependencies in the unit it is bound to.
C18_AnalysisStaysInUnit ==
    [][(bound_resolver.some \/ bound_resolver'.some) =>
        LET unit == IF bound_resolver.some THEN bound_resolver.val.unit
                    ELSE bound_resolver'.val.unit
        IN /\ global_namespace' = global_namespace
           /\ files' = files
           /\ Len(globals') = Len(globals)
           /\ \A g \in 0..(Len(globals) - 1) :
                 g # unit => Slot(globals', g) = Slot(globals, g)
           /\ (bound_resolver.some /\ bound_resolver'.some) => globals' = globals
           /\ (last'.op = "reabsorb" /\ last'.ok) =>
                 /\ Slot(globals', unit).errors = TheResolver.errors
                 /\ Slot(globals', unit).resolved_globals = TheResolver.resolved_globals
      ]_vars

\* C18, witness: a unit has reabsorbed an error and a dependency of its
\* analysis while another unit holds an error of its own.
C18_Witness ==
    /\ last.op = "reabsorb"
    /\ last.ok
    /\ Len(Slot(globals, last.unit).errors)
          > Slot(globals, last.unit).after_initial_parse_cp.errors_cp
    /\ Slot(globals, last.unit).resolved_globals.referenced_globals # <<>>
    /\ \E g \in Modules(globals) : g # last.unit /\ Slot(globals, g).errors # <<>>

(***************************************************************************)
(* Properties of the lookups.                                              *)
(***************************************************************************)
\* C19: every read of an entity by id through the resolver (an index, or a
\* call of get_link_info, get_module or is_module) appends the id to the
\* dependency list.
C19_EveryAccessIsRecorded ==
    [][(/\ last'.op \in {"index", "get_link_info", "get_module", "is_module"}
        /\ ~fatal')
       => TheResolver'.resolved_globals.referenced_globals
             = Append(TheResolver.resolved_globals.referenced_globals, last'.id)
      ]_vars

\* A step that finds an entity of another kind than the expected one, and
\* the entity it finds.
KindMismatch ==
    \/ last'.op = "not_expected_global_error"
    \/ /\ last'.op = "try_get"
       /\ \E g \in LiveGlobals(globals) :
            /\ Declarations(globals, last'.name) = {g}
            /\ Slot(globals, g).kind # last'.expected

FoundEntity ==
    IF last'.op = "try_get"
    THEN CHOOSE g \in LiveGlobals(globals) : Declarations(globals, last'.name) = {g}
    ELSE last'.id

\* The step reports exactly one error, at the reference, and no entity.
OneMismatchError ==
    /\ Len(TheResolver'.errors) = Len(TheResolver.errors) + 1
    /\ IsPrefix(TheResolver.errors, TheResolver'.errors)
    /\ TheResolver'.errors[Len(TheResolver'.errors)].position = last'.span
    /\ "is not a" \in Range(TheResolver'.errors[Len(TheResolver'.errors)].reason)
    /\ last'.op = "try_get" => last'.result = None

\* The info labels of the error the step reports.
MismatchLabels == TheResolver'.errors[Len(TheResolver'.errors)].infos

LabelAtDeclaration ==
    /\ Len(MismatchLabels) = 1
    /\ <<MismatchLabels[1].position, MismatchLabels[1].file>> = DeclarationSite(FoundEntity)

\* C20 as claimed: a name that resolves to an entity of another kind than
\* expected gets exactly one kind-mismatch error at the reference, with an
\* info label at the entity's declaration, and the lookup returns nothing.
C20_KindMismatchLabelled ==
    [][KindMismatch => OneMismatchError /\ LabelAtDeclaration]_vars

\* C20 as amended: a name that resolves to an entity of another kind than
\* expected gets exactly one kind-mismatch error at the reference and the
\* lookup returns nothing. The error not_expected_global_error reports has
\* exactly one info label, at the span and file recorded for the entity,
\* whatever the entity is. The error a typed lookup reports has that label
\* when the entity is declared in a file, and no label when it is a builtin.
C20_KindMismatchLabelledIfDeclared ==
    [][KindMismatch =>
        /\ OneMismatchError
        /\ IF last'.op = "try_get" /\ ~HasLinkInfo(Slot(globals, FoundEntity))
           THEN MismatchLabels = <<>>
           ELSE /\ LabelAtDeclaration
                /\ MismatchLabels[1].info = "Defined here"
      ]_vars

\* not_expected_global_error has reported a builtin found where a constant
\* was expected, with the label at what is recorded for the builtin.
C20_WitnessBuiltinLabelled ==
    /\ last.op = "not_expected_global_error"
    /\ ~HasLinkInfo(Slot(globals, last.id))
    /\ TheResolver.errors # <<>>
    /\ Len(TheResolver.errors[Len(TheResolver.errors)].infos) = 1

\* A typed lookup has reported a module found where a type was expected,
\* with the label at the module's declaration.
C20_WitnessModuleLabelled ==
    /\ last.op = "try_get"
    /\ last.expected = "Type"
    /\ last.result = None
    /\ TheResolver.errors # <<>>
    /\ LET e == TheResolver.errors[Len(TheResolver.errors)]
       IN /\ e.position = last.span
          /\ Len(e.infos) = 1
          /\ \E g \in Modules(globals) :
                /\ Slot(globals, g).name = last.name
                /\ <<e.infos[1].position, e.infos[1].file>> = DeclarationSite(g)

\* C20, witness: a builtin type was looked up as a module.
C20_Witness ==
    /\ last.op = "try_get"
    /\ last.name = "int"
    /\ last.expected = "Module"
    /\ last.result = None
    /\ TheResolver.errors # <<>>
    /\ TheResolver.errors[Len(TheResolver.errors)].position = last.span

(***************************************************************************)
(* Identity of entity ids over the life of the linker.                     *)
(***************************************************************************)
IssuedGlobals(gs) == 0..(Len(gs) - 1)

\* What an entity is, apart from the results analysis attaches to it.
Identity(named) ==
    IF named.kind = "Module"
    THEN <<named.kind, named.name, named.file, named.decl_idx>>
    ELSE <<named.kind, named.name>>

\* The ids the last file operation allocated.
AllocatedByLast(fs, op) ==
    IF op.op \in {"add_file", "update_file"} /\ op.file # NoFile
    THEN Range(Slot(fs, op.file).associated_values)
    ELSE {}

\* C21: an entity id once issued never denotes a different entity: an issued
\* id keeps its entity or becomes freed, a freed id stays freed, and every id
\* an add_file or update_file allocates (a re-gathering of the same file
\* included) was never issued before.
C21_IdsNeverReissued ==
    [][/\ Len(globals') >= Len(globals)
       /\ \A id \in IssuedGlobals(globals) :
            \/ Slot(globals', id) = FreedSlot
            \/ /\ Slot(globals, id) # FreedSlot
               /\ Identity(Slot(globals', id)) = Identity(Slot(globals, id))
       /\ \A id \in AllocatedByLast(files', last') :
            id \notin IssuedGlobals(globals)]_vars

\* An update has freed an entity and gathered the same name of the same file
\* again, under another id.
C21_Witness ==
    /\ last.op = "update_file"
    /\ \E old \in IssuedGlobals(globals), new \in AllocatedByLast(files, last) :
        /\ Slot(globals, old) = FreedSlot
        /\ old < new
        /\ Slot(globals, new).file = last.file
        /\ \E other \in LiveGlobals(globals) : other < old

(***************************************************************************)
(* Access through ids of slots that hold nothing.                          *)
(***************************************************************************)
\* The ids the last operation indexed the arenas with that were reserved,
\* freed or never filled when it did.
Unoccupied(arena, ids) ==
    {id \in ids : Slot(arena, id) \in {ReservedFile, FreedFile, FreedSlot}}

IndexedFiles(op) ==
    CASE op.op = "relink" -> {op.file}
      [] op.op = "remove_files" -> op.removed
      [] op.op = "remove_file_datas" -> op.removed
      [] OTHER -> {}

IndexedGlobals(op) ==
    IF op.op = "instantiate" THEN {op.id} ELSE {}

\* The file ids the last operation wrote a record to.
WrittenFiles(op) ==
    IF op.op = "add_reserved_file" THEN {op.file} ELSE {}

\* The files the last operation walks, in the order it walks them.
WalkedFiles(op) ==
    CASE op.op = "relink" -> <<op.file>>
      [] op.op = "remove_files" -> op.list
      [] op.op = "remove_file_datas" -> op.list
      [] OTHER -> <<>>

\* The entities the last operation frees, one for each time it frees it:
\* those the occupied files it walks list.
RECURSIVE FreedThrough(_, _)
FreedThrough(fs, file_ids) ==
    IF file_ids = <<>> THEN <<>>
    ELSE (IF arena_index(fs, Head(file_ids)).some
          THEN arena_index(fs, Head(file_ids)).val.associated_values
          ELSE <<>>) \o FreedThrough(fs, Tail(file_ids))

\* The last operation frees an entity that is freed already, or frees one
\* entity twice.
FreesFreedEntity(gs, fs, op) ==
    LET freed == FreedThrough(fs, WalkedFiles(op))
    IN \/ \E i \in DOMAIN freed : Slot(gs, freed[i]) = FreedSlot
       \/ \E i, j \in DOMAIN freed : i # j /\ freed[i] = freed[j]

\* The last operation frees one file twice.
FreesFileTwice(op) ==
    /\ op.op = "remove_files"
    /\ \E i, j \in DOMAIN op.list : i # j /\ op.list[i] = op.list[j]

\* C22: an operation that indexes the entity store or the file registry with
\* an id that is reserved but unfilled, or freed, ends in the fatal internal
\* error: it returns no value, fills no slot and binds no name; what it has
\* freed before it reaches the id stays freed. An operation that writes a
\* file record through an id that is freed ends in the fatal internal error
\* as well, with the file registry and every entity there was as they were.
\* An operation that frees an entity through an id that is freed already,
\* be it freed before the call or earlier in the call, ends in the fatal
\* internal error in the same way, and so does a removal that frees one file
\* id twice.
C22_UnoccupiedAccessIsFatal ==
    [][/\ (\/ Unoccupied(files, IndexedFiles(last')) # {}
           \/ Unoccupied(globals, IndexedGlobals(last')) # {}
           \/ FreesFreedEntity(globals, files, last'))
          => /\ fatal'
             /\ UNCHANGED <<global_namespace, files, next_obj>>
             /\ Len(globals') = Len(globals)
             /\ \A g \in IssuedGlobals(globals) :
                   Slot(globals', g) \in {Slot(globals, g), FreedSlot}
             /\ last'.op = "instantiate" => last'.result = None /\ UNCHANGED globals
       /\ FreesFileTwice(last')
          => /\ fatal'
             /\ UNCHANGED next_obj
             /\ \A f \in IssuedFiles(files) : Slot(files', f) \in {Slot(files, f), FreedFile}
       /\ (\E f \in WrittenFiles(last') : Slot(files, f) = FreedFile)
          => /\ fatal'
             /\ UNCHANGED <<files, next_obj>>
             /\ \A g \in IssuedGlobals(globals) : Slot(globals', g) = Slot(globals, g)]_vars

\* A relink through a reserved file id has ended fatally, in a linker that
\* also holds freed entities and a freed file.
C22_Witness ==
    /\ fatal
    /\ last.op = "relink"
    /\ Slot(files, last.file) = ReservedFile
    /\ \E f \in IssuedFiles(files) : Slot(files, f) = FreedFile
    /\ \E g \in IssuedGlobals(globals) : Slot(globals, g) = FreedSlot

\* A removal handed one file twice has ended fatally at the second visit,
\* with the entities of the file freed at the first.
C22_WitnessFreedTwice ==
    /\ fatal
    /\ last.op = "remove_files"
    /\ last.list = <<0, 0>>
    /\ Slot(files, 0).state = "Filled"
    /\ Slot(files, 0).associated_values # <<>>
    /\ \A g \in Range(Slot(files, 0).associated_values) : Slot(globals, g) = FreedSlot

\* A removal handed a file without entities twice has ended fatally at the
\* second free of the file.
C22_WitnessFileFreedTwice ==
    /\ fatal
    /\ last.op = "remove_files"
    /\ last.list = <<0, 0>>
    /\ Slot(files, 0) = FreedFile

\* A removal handed a filled file after a reserved one has ended fatally at
\* the reserved one, with nothing freed; handed them the other way round
\* it has ended with the entities of the filled file freed.
C22_WitnessDescending ==
    /\ fatal
    /\ last.op = "remove_file_datas"
    /\ last.list = <<1, 0>>
    /\ Slot(files, 1) = ReservedFile
    /\ Slot(files, 0).state = "Filled"
    /\ Slot(files, 0).associated_values # <<>>
    /\ \A g \in Range(Slot(files, 0).associated_values) : Slot(globals, g) # FreedSlot

\* An instantiate through the id of a freed entity has ended fatally.
C22_WitnessFreedEntity ==
    /\ fatal
    /\ last.op = "instantiate"
    /\ Slot(globals, last.id) = FreedSlot

(***************************************************************************)
(* update_file against removal followed by gathering.                      *)
(***************************************************************************)
\* The ids a namespace binds.
BoundIds(ns) == UNION {Range(ns[n].ids) : n \in DOMAIN ns}

\* How often a bucket lists an id.
Occurrences(ns, name, id) == Cardinality({i \in DOMAIN ns[name].ids : ns[name].ids[i] = id})

\* C23: update_file(f, text) is the removal of every entity and namespace
\* binding of f followed by gathering the text into the same file id: the
\* file keeps its id and identifier, the entities it listed are freed and
\* bound nowhere, the entities listed for f afterwards are exactly the newly
\* gathered ones, in the order of the text and each bound once under its
\* name, every other file and its entities are untouched, and entities and
\* namespace are those relink leaves for the same file and text.
C23_UpdateIsRemoveThenGather ==
    [][last'.op = "update_file" =>
        LET f == last'.file
            before == Slot(files, f)
            after == Slot(files', f)
            old == Range(before.associated_values)
            new == after.associated_values
            relinked == relink(TheLinker, f, after.text)
        IN /\ IsLiveFile(files, f) /\ IsLiveFile(files', f)
           /\ Len(files') = Len(files)
           /\ after.file_identifier = before.file_identifier
           /\ \A g \in old : Slot(globals', g) = FreedSlot /\ g \notin BoundIds(global_namespace')
           /\ Len(new) = Len(after.text)
           /\ \A i \in DOMAIN new :
                /\ new[i] \notin IssuedGlobals(globals)
                /\ \A j \in DOMAIN new : new[j] = new[i] => j = i
                /\ Slot(globals', new[i]).kind = "Module"
                /\ Slot(globals', new[i]).name = after.text[i].name
                /\ Slot(globals', new[i]).file = f
                /\ Occurrences(global_namespace', after.text[i].name, new[i]) = 1
           /\ {g \in LiveGlobals(globals') : Slot(globals', g).file = f} = Range(new)
           /\ \A other \in IssuedFiles(files) \ {f} : Slot(files', other) = Slot(files, other)
           /\ \A g \in IssuedGlobals(globals) \ old : Slot(globals', g) = Slot(globals, g)
           /\ BoundIds(global_namespace') = (BoundIds(global_namespace) \ old) \cup Range(new)
           /\ globals' = relinked.globals
           /\ global_namespace' = relinked.global_namespace
           /\ after = [Slot(relinked.files, f) EXCEPT !.file_identifier = before.file_identifier]
    ]_vars

\* A file that held entities has been updated to a text that declares some,
\* next to another file that holds entities.
C23_Witness ==
    /\ last.op = "update_file"
    /\ Slot(files, last.file).associated_values # <<>>
    /\ \E g \in IssuedGlobals(globals) :
        /\ Slot(globals, g) = FreedSlot
        /\ \A h \in Range(Slot(files, last.file).associated_values) : g < h
    /\ \E other \in LiveFiles(files) \ {last.file} :
        Slot(files, other).associated_values # <<>>

(***************************************************************************)
(* Declaring a name.                                                       *)
(***************************************************************************)
\* The bucket of a name after the declaration of id under it.
Declared(bucket, id) ==
    CASE bucket.tag = "Vacant" -> Global(id)
      [] bucket.tag = "Global" -> Colission(<<bucket.ids[1], id>>)
      [] bucket.tag = "Colission" -> Colission(bucket.ids \o <<id>>)

\* C24: declaring (name, id) changes the bucket of that name and no other:
\* an unused name becomes Global(id), Global(g) becomes the collision
\* <<g, id>>, and a collision gets id appended, its earlier members in their
\* order. Checked for every name and the next id on every namespace the
\* session reaches; and every collision the session has built lists its
\* members in the order they were declared, which is the order of their ids.
C24_AddNameOneBucket ==
    /\ \A name \in DOMAIN global_namespace :
        LET id == arena_next_id(globals)
            ns == add_name(global_namespace, name, id)
        IN /\ DOMAIN ns = DOMAIN global_namespace
           /\ ns[name] = Declared(global_namespace[name], id)
           /\ \A other \in DOMAIN ns \ {name} : ns[other] = global_namespace[other]
    /\ \A name \in DOMAIN global_namespace :
        LET bucket == global_namespace[name] IN
        bucket.tag = "Colission" =>
            \A i, j \in DOMAIN bucket.ids : i < j => bucket.ids[i] < bucket.ids[j]

\* add_file has just declared the third collider of a name, next to a name
\* bound to one entity and an unused name.
C24_Witness ==
    /\ last.op = "add_file"
    /\ last.file # NoFile
    /\ \E name \in DOMAIN global_namespace :
        LET bucket == global_namespace[name] IN
        /\ bucket.tag = "Colission"
        /\ Len(bucket.ids) = 3
        /\ bucket.ids[3] \in Range(Slot(files, last.file).associated_values)
    /\ \E name \in DOMAIN global_namespace : global_namespace[name].tag = "Global"
    /\ \E name \in DOMAIN global_namespace : global_namespace[name].tag = "Vacant"

(***************************************************************************)
(* Colliding user declarations in the diagnostics of a recompile.          *)
(***************************************************************************)
\* The references to a name in the bodies of the live modules.
References(n) ==
    {p \in Modules(globals) \X (1..MaxGlobals) :
        p[2] \in DOMAIN Slot(globals, p[1]).refs /\ Slot(globals, p[1]).refs[p[2]] = n}

\* What a resolver says of a reference to a name of several declarations:
\* colliding imports in resolver.rs, no such name in linker.rs.
CollisionReasons(n) ==
    {<<"There were colliding imports for the name", n>>,
     <<"No Value or Type of the name was found", n>>}

\* The errors the units hold for the references to a name.
CollidingImportErrors(n) ==
    {p \in Modules(globals) \X (1..(2 * MaxGlobals)) :
        /\ p[2] \in DOMAIN Slot(globals, p[1]).errors
        /\ Slot(globals, p[1]).errors[p[2]].reason \in CollisionReasons(n)}

\* What the report of a file says about the collision of a name.
DuplicateReports(f, n) ==
    {r \in get_all_errors_in_file(TheLinker, f).duplicate_declarations : r.bucket = n}

Collides(n) == Cardinality(UserDeclarations(globals, n)) >= 2

\* C25 as stated: two user declarations that share a name and are referenced
\* nowhere leave the report of every file without an error about them after
\* recompile_all.
C25_UnreferencedCollisionSilent ==
    Recompiled =>
        \A n \in UserNames :
            (Collides(n) /\ References(n) = {}) =>
                \A f \in LiveFiles(files) : DuplicateReports(f, n) = {}

\* C25: after recompile_all, user declarations that share a name are reported
\* at their declarations whether the name is referenced or not: the report of
\* a file holds exactly one conflict error at each colliding declaration of
\* that file, labelled with every other collider, and none for a file that
\* declares none of them. A reference adds exactly one error at that
\* reference in the referencing unit, colliding imports or no such name by
\* the resolver that flattened it; without a reference no unit holds such an
\* error for the name.
C25_CollisionReportedAtDeclarations ==
    Recompiled =>
        \A n \in UserNames : Collides(n) =>
            /\ \A f \in LiveFiles(files) :
                LET here == {g \in UserDeclarations(globals, n) : Slot(globals, g).file = f}
                IN /\ Cardinality(DuplicateReports(f, n)) = Cardinality(here)
                   /\ \A g \in here :
                        \E r \in DuplicateReports(f, n) :
                            /\ r.error.position = Slot(globals, g).name_span
                            /\ r.error.reason = <<"conflicts with other declarations", n>>
                            /\ {<<r.error.infos[i].position, r.error.infos[i].file>> :
                                    i \in DOMAIN r.error.infos}
                                 = {DeclarationSite(o) : o \in UserDeclarations(globals, n) \ {g}}
                            /\ Len(r.error.infos) = Cardinality(UserDeclarations(globals, n)) - 1
            /\ \A p \in References(n) :
                Cardinality({i \in ErrorsAt(Slot(globals, p[1]), <<Slot(globals, p[1]).decl_idx, p[2]>>) :
                    Slot(globals, p[1]).errors[i].reason \in CollisionReasons(n)}) = 1
            /\ Cardinality(CollidingImportErrors(n)) = Cardinality(References(n))

\* A recompile has returned with two user declarations of a name that no
\* module references, each reported in its file.
C25_Witness ==
    /\ Recompiled
    /\ \E n \in UserNames :
        /\ Collides(n)
        /\ References(n) = {}
        /\ \A g \in UserDeclarations(globals, n) :
            DuplicateReports(Slot(globals, g).file, n) # {}

(***************************************************************************)
(* Early termination of the pipeline.                                      *)
(***************************************************************************)
\* The place of a stage in the order of the pipeline.
StageRank(stage) == CHOOSE i \in DOMAIN EarlyExitUpTo : EarlyExitUpTo[i] = stage

\* The stage the command line asks for, when --upto has a value the parser
\* accepts.
Requested ==
    CHOOSE v \in {EarlyExitUpTo[i] : i \in DOMAIN EarlyExitUpTo} : ValueEnumName(v) = upto

UpTo(stage) == StageRank(Requested) >= StageRank(stage)

\* C26: with early termination requested after a stage, no entity is taken
\* through a later stage, and a recompile that is over has taken every
\* entity through every stage up to and including the requested one.
C26_EarlyExitRunsUpToStage ==
    upto \in PossibleValues =>
        /\ \A g \in Modules(globals) :
            /\ Flattened(g) => UpTo("Flatten")
            /\ Typechecked(g) => UpTo("AbstractTypecheck")
            /\ Instantiated(g) => UpTo("Instantiate")
        /\ Recompiled =>
            \A g \in Modules(globals) :
                /\ UpTo("Flatten") => Flattened(g)
                /\ UpTo("AbstractTypecheck") => Typechecked(g)
                /\ (UpTo("Instantiate") /\ Slot(globals, g).template_arguments = <<>>)
                      => Instantiated(g)

(***************************************************************************)
(* Local names: redeclaration and shadowing.                               *)
(***************************************************************************)
\* Where the innermost open frame starts, as the flattener holds it.
CurrentFrameStart == IF frame_saves = <<>> THEN 0 ELSE frame_saves[Len(frame_saves)].save

\* The entries of the stack with a name, in the current frame and below it.
InCurrentFrame(name) ==
    {i \in DOMAIN name_context.local_stack :
        i > CurrentFrameStart /\ name_context.local_stack[i][1] = name}

InOuterFrames(name) ==
    {i \in DOMAIN name_context.local_stack :
        i <= CurrentFrameStart /\ name_context.local_stack[i][1] = name}

\* C27: add_declaration of a name the current frame already declares fails,
\* returns the id of that declaration and leaves the context as it was;
\* add_declaration of a name no entry of the stack declares succeeds, pushes
\* that one entry, and get_declaration_for then returns the new id.
C27_RedeclarationInFrameFails ==
    [][last'.op = "add_declaration" =>
        /\ InCurrentFrame(last'.name) # {} =>
            /\ ~last'.result.ok
            /\ \E i \in InCurrentFrame(last'.name) :
                last'.result.err = name_context.local_stack[i][2]
            /\ name_context' = name_context
        /\ (InCurrentFrame(last'.name) = {} /\ InOuterFrames(last'.name) = {}) =>
            /\ last'.result = Ok
            /\ name_context'.local_stack
                  = name_context.local_stack \o << <<last'.name, last'.id>> >>
            /\ name_context'.current_frame_starts_at = name_context.current_frame_starts_at
            /\ get_declaration_for(name_context', last'.name) = Some(last'.id)
    ]_vars

\* In an inner frame that holds a declaration, a second declaration of its
\* name has been refused with the id of the first.
C27_Witness ==
    /\ last.op = "add_declaration"
    /\ frame_saves # <<>>
    /\ ~last.result.ok
    /\ \E i \in InCurrentFrame(last.name) :
        /\ name_context.local_stack[i][2] = last.result.err
        /\ last.result.err # last.id
    /\ InOuterFrames(last.name) = {}

\* C28: a name an outer frame declares can be declared again in an inner
\* frame: the declaration succeeds and get_declaration_for returns the inner
\* declaration while the frame is open.
C28_InnerFrameShadows ==
    [][(/\ last'.op = "add_declaration"
        /\ InCurrentFrame(last'.name) = {}
        /\ InOuterFrames(last'.name) # {})
       => /\ last'.result = Ok
          /\ get_declaration_for(name_context', last'.name) = Some(last'.id)
    ]_vars

(***************************************************************************)
(* The frame of remove_files.                                              *)
(***************************************************************************)
\* The entities the files of F list.
ListedFor(fs, F) == UNION {Range(Slot(fs, f).associated_values) : f \in F}

\* C29: remove_files(F) frees the entities listed for the files of F and the
\* file records of F, and takes those ids out of the namespace; nothing else
\* changes: every other entity and file record is as before, no id is
\* issued, a bucket that lists none of the ids is as before, and a bucket
\* that lists some keeps its other members in their order.
C29_RemoveFilesFrame ==
    [][last'.op = "remove_files" =>
        LET F == last'.removed
            removed == ListedFor(files, F)
        IN /\ Len(globals') = Len(globals)
           /\ Len(files') = Len(files)
           /\ \A g \in IssuedGlobals(globals) :
                Slot(globals', g) = IF g \in removed THEN FreedSlot ELSE Slot(globals, g)
           /\ \A f \in IssuedFiles(files) :
                Slot(files', f) = IF f \in F THEN FreedFile ELSE Slot(files, f)
           /\ DOMAIN global_namespace' = DOMAIN global_namespace
           /\ \A n \in DOMAIN global_namespace :
                /\ global_namespace'[n].ids
                      = SelectSeq(global_namespace[n].ids, LAMBDA g : g \notin removed)
                /\ Range(global_namespace[n].ids) \cap removed = {}
                      => global_namespace'[n] = global_namespace[n]
    ]_vars

\* remove_files has taken a collider out of a bucket between two others,
\* which are still listed in their order, and a file that was not removed
\* holds entities.
C29_Witness ==
    /\ last.op = "remove_files"
    /\ \E n \in DOMAIN global_namespace :
        LET bucket == global_namespace[n] IN
        /\ bucket.tag = "Colission"
        /\ Len(bucket.ids) >= 2
        /\ \E g \in IssuedGlobals(globals) :
            /\ Slot(globals, g) = FreedSlot
            /\ bucket.ids[1] < g
            /\ g < bucket.ids[Len(bucket.ids)]
    /\ \E f \in LiveFiles(files) : Slot(files, f).associated_values # <<>>
    /\ \E f \in last.removed : Slot(files, f) = FreedFile

(***************************************************************************)
(* The checkpoint a reabsorb appends.                                      *)
(***************************************************************************)
\* C30: a reabsorb_errors_globals that succeeds was given the length of the
\* unit's checkpoint list as checkpoint_id, stores what it was given, and
\* appends exactly one checkpoint, which is (length of the reattached error
\* store, length of the reattached dependency list, reattached completeness
\* flag); the earlier checkpoints stay. With any other checkpoint_id, that of
\* a stage already reabsorbed included, it is fatal and the unit is left as
\* it was.
C30_ReabsorbAppendsOneCheckpoint ==
    [][last'.op = "reabsorb" =>
        LET before == Slot(globals, last'.unit)
            after == Slot(globals', last'.unit)
            given == decommission(bound_resolver.val.r)
            n == Len(before.checkpoints)
        IN /\ last'.ok =>
                /\ ~fatal'
                /\ last'.checkpoint_id = n
                /\ after.errors = given.errors
                /\ after.resolved_globals = given.resolved_globals
                /\ Len(after.checkpoints) = n + 1
                /\ SubSeq(after.checkpoints, 1, n) = before.checkpoints
                /\ after.checkpoints[n + 1]
                      = [errors_cp |-> Len(given.errors),
                         resolved_globals_cp |->
                            <<Len(given.resolved_globals.referenced_globals),
                              given.resolved_globals.all_resolved>>]
           /\ ~last'.ok => fatal' /\ globals' = globals
           /\ last'.checkpoint_id # n => ~last'.ok
    ]_vars

\* A reabsorb has appended, as the second checkpoint of a unit, one that
\* records what the analysis added to the stores.
C30_Witness ==
    /\ last.op = "reabsorb"
    /\ last.ok
    /\ last.checkpoint_id = AFTER_FLATTEN_CP
    /\ LET md == Slot(globals, last.unit) IN
        /\ Len(md.checkpoints) = 2
        /\ md.checkpoints[2].errors_cp > md.checkpoints[1].errors_cp
        /\ md.checkpoints[2].resolved_globals_cp # md.checkpoints[1].resolved_globals_cp

\* A reabsorb for a stage the unit had already reabsorbed has ended fatally.
C30_WitnessTwice ==
    /\ fatal
    /\ last.op = "reabsorb"
    /\ ~last.ok
    /\ last.checkpoint_id < Len(Slot(globals, last.unit).checkpoints)
    /\ last.checkpoint_id > AFTER_INITIAL_PARSE_CP

(***************************************************************************)
(* Detach, analyse, reattach.                                              *)
(***************************************************************************)
\* What the unit's stores held when the checkpoints it has now were taken:
\* the stores a resolver bound to it now is given.
PreDetach(unit, n) == {e \in checkpoint_log : e.unit = unit /\ e.index = n}

\* C31: the protocol loses nothing. take_errors_globals hands the resolver
\* exactly the unit's errors and dependencies and leaves the unit's stores
\* untouched; nothing the resolver holds is dropped by the analysis; and a
\* reabsorb that succeeds leaves in the unit's error store and dependency
\* list the contents from before the detach as a prefix, followed by what
\* the resolver recorded.
C31_DetachReattachLosesNothing ==
    [][/\ (last'.op = "bind" /\ last'.taken) =>
            LET before == Slot(globals, last'.unit)
                after == Slot(globals', last'.unit)
            IN /\ Untouched(after)
               /\ TheResolver'.errors = before.errors
               /\ TheResolver'.resolved_globals = before.resolved_globals
               /\ after = [before EXCEPT !.errors = <<>>,
                                         !.resolved_globals = ResolvedGlobals_empty]
       /\ (bound_resolver.some /\ bound_resolver'.some) =>
            /\ IsPrefix(TheResolver.errors, TheResolver'.errors)
            /\ IsPrefix(TheResolver.resolved_globals.referenced_globals,
                        TheResolver'.resolved_globals.referenced_globals)
       /\ (last'.op = "reabsorb" /\ last'.ok) =>
            LET before == Slot(globals, last'.unit)
                after == Slot(globals', last'.unit)
            IN /\ after.errors = TheResolver.errors
               /\ after.resolved_globals = TheResolver.resolved_globals
               /\ PreDetach(last'.unit, Len(before.checkpoints)) # {}
               /\ \A e \in PreDetach(last'.unit, Len(before.checkpoints)) :
                    /\ IsPrefix(e.errors, after.errors)
                    /\ IsPrefix(e.resolved_globals.referenced_globals,
                                after.resolved_globals.referenced_globals)
    ]_vars

\* A unit that held an error and was detached has been reattached with
\* that error first and an error and a dependency of the analysis after it.
C31_Witness ==
    /\ last.op = "reabsorb"
    /\ last.ok
    /\ LET md == Slot(globals, last.unit) IN
        \E e \in PreDetach(last.unit, Len(md.checkpoints) - 1) :
            /\ e.errors # <<>>
            /\ Len(md.errors) > Len(e.errors)
            /\ IsPrefix(e.errors, md.errors)
            /\ md.resolved_globals.referenced_globals # <<>>

(***************************************************************************)
(* add_file and the file identifier.                                       *)
(***************************************************************************)
\* The live files registered under an identifier.
RegisteredAs(fs, file_identifier) ==
    {f \in LiveFiles(fs) : Slot(fs, f).file_identifier = file_identifier}

\* C32: add_file called with the identifier of an already registered file is
\* a fatal failure that registers nothing (no file, no entity, no name);
\* otherwise it returns a file id that no live file had, and the record under
\* that id is filled with the identifier and the text, and lists exactly the
\* entities gathered from the text, each of which names that file as its own.
C32_AddFileIdentifier ==
    [][last'.op = "add_file" =>
        IF RegisteredAs(files, last'.file_identifier) # {}
        THEN /\ fatal'
             /\ last'.file = NoFile
             /\ TheLinker' = TheLinker
        ELSE /\ ~ fatal'
             /\ last'.file \notin LiveFiles(files)
             /\ LiveFiles(files') = LiveFiles(files) \cup {last'.file}
             /\ \A f \in LiveFiles(files) : Slot(files', f) = Slot(files, f)
             /\ Slot(files', last'.file).state = "Filled"
             /\ Slot(files', last'.file).file_identifier = last'.file_identifier
             /\ Range(Slot(files', last'.file).associated_values) =
                    LiveGlobals(globals') \ LiveGlobals(globals)
             /\ Len(Slot(files', last'.file).associated_values) =
                    Len(Slot(files', last'.file).text)
             /\ \A g \in Range(Slot(files', last'.file).associated_values) :
                    Slot(globals', g).file = last'.file
    ]_vars

\* A second add_file under the identifier of a live file that holds
\* entities has failed, and the linker still holds that one file only.
C32_Witness ==
    /\ last.op = "add_file"
    /\ fatal
    /\ last.file = NoFile
    /\ \E f \in RegisteredAs(files, last.file_identifier) :
        Slot(files, f).associated_values # <<>>

\* An add_file under a fresh identifier next to a live file has returned
\* a new id whose record is filled.
C32_WitnessFresh ==
    /\ last.op = "add_file"
    /\ ~ fatal
    /\ LiveFiles(files) \ {last.file} # {}
    /\ Slot(files, last.file).associated_values # <<>>

(***************************************************************************)
(* The duplicate-declaration report of a file, bucket by bucket.           *)
(***************************************************************************)
\* The positions of a collision bucket that hold a user declaration.
UserColliders(n) ==
    {i \in DOMAIN global_namespace[n].ids :
        HasLinkInfo(Slot(globals, global_namespace[n].ids[i]))}

\* The labels of an error, as (position, file) pairs in report order.
Labels(error) ==
    [k \in DOMAIN error.infos |-> <<error.infos[k].position, error.infos[k].file>>]

\* C33: for each live file F, the report of get_duplicate_declaration_errors
\* holds, for every collision bucket and every user declaration of F in it,
\* exactly one error, placed at that declaration, whose labels name every
\* other user-declared collider of the bucket exactly once and never the
\* declaration itself; every error of the report belongs to a declaration of
\* F, so the colliders declared in other files produce none.
C33_DuplicateReportPerFile ==
    \A f \in LiveFiles(files) :
        LET report == get_duplicate_declaration_errors(TheLinker, f) IN
        /\ \A n \in Names : global_namespace[n].tag = "Colission" =>
            \A i \in UserColliders(n) :
                LET g == global_namespace[n].ids[i]
                    mine == {r \in report : r.bucket = n /\ r.idx = i}
                    at_g == {r \in report : r.error.position = Slot(globals, g).name_span}
                IN IF Slot(globals, g).file = f
                   THEN /\ Cardinality(mine) = 1
                        /\ at_g = mine
                        /\ \A r \in mine :
                            /\ NoDuplicates(Labels(r.error))
                            /\ Range(Labels(r.error)) =
                                {DeclarationSite(global_namespace[n].ids[j]) :
                                    j \in UserColliders(n) \ {i}}
                            /\ DeclarationSite(g) \notin Range(Labels(r.error))
                            /\ \A k \in DOMAIN r.error.infos :
                                r.error.infos[k].info = "Conflicts with"
                   ELSE mine = {}
        /\ \A r \in report :
            /\ global_namespace[r.bucket].tag = "Colission"
            /\ r.idx \in UserColliders(r.bucket)
            /\ Slot(globals, global_namespace[r.bucket].ids[r.idx]).file = f

\* Two files redeclare a builtin: the bucket holds three colliders, and the
\* report of each file holds one error there, labelled with the declaration
\* of the other file only.
C33_Witness ==
    \E f \in LiveFiles(files), n \in BuiltinNames :
        /\ global_namespace[n].tag = "Colission"
        /\ Len(global_namespace[n].ids) = 3
        /\ Cardinality(UserColliders(n)) = 2
        /\ Cardinality({r \in get_duplicate_declaration_errors(TheLinker, f) : r.bucket = n}) = 1
        /\ \E r \in get_duplicate_declaration_errors(TheLinker, f) :
            /\ r.bucket = n
            /\ Len(r.error.infos) = 1
            /\ r.error.infos[1].file \in LiveFiles(files) \ {f}

(***************************************************************************)
(* The builtins right after construction.                                  *)
(***************************************************************************)
\* C34: immediately after Linker::new, the namespace holds for each builtin
\* name a single entry whose id is the one get_builtin_type or
\* get_builtin_constant computes for the name: a type has its position in
\* BUILTIN_TYPES, a constant its position in BUILTIN_CONSTANTS plus the
\* number of builtin types; the entity under that id is the builtin of that
\* name, and the builtin names and their ids are pairwise distinct.
C34_BuiltinIdsAfterNew ==
    last.op = "new" =>
        /\ \A i \in DOMAIN BUILTIN_TYPES :
            LET name == BUILTIN_TYPES[i] IN
            /\ get_builtin_type(name) = i - 1
            /\ global_namespace[name] = Global(get_builtin_type(name))
            /\ get_obj_id(global_namespace, name) = Some(get_builtin_type(name))
            /\ Slot(globals, get_builtin_type(name)) = BuiltinType(name)
        /\ \A i \in DOMAIN BUILTIN_CONSTANTS :
            LET name == BUILTIN_CONSTANTS[i] IN
            /\ get_builtin_constant(name) = i - 1 + Len(BUILTIN_TYPES)
            /\ global_namespace[name] = Global(get_builtin_constant(name))
            /\ get_obj_id(global_namespace, name) = Some(get_builtin_constant(name))
            /\ Slot(globals, get_builtin_constant(name)) = BuiltinConstant(name)
        /\ NoDuplicates(BUILTIN_TYPES \o BUILTIN_CONSTANTS)
        /\ BuiltinNames = Range(BUILTIN_TYPES \o BUILTIN_CONSTANTS)
        /\ \A n, m \in BuiltinNames :
            global_namespace[n].ids = global_namespace[m].ids => n = m
        /\ Len(globals) = Len(BUILTIN_TYPES) + Len(BUILTIN_CONSTANTS)
        /\ \A n \in Names \ BuiltinNames : global_namespace[n] = Vacant

\* The linker has just been constructed: it holds the four builtins, no file,
\* and the last constant is bound to the last id.
C34_Witness ==
    /\ last.op = "new"
    /\ files = <<>>
    /\ Len(globals) = 4
    /\ global_namespace["int"] = Global(1)
    /\ global_namespace["false"] = Global(3)

(***************************************************************************)
(* Frames of the local variable context.                                   *)
(***************************************************************************)
\* The innermost open frame: what new_frame returned and the stack then.
InnermostFrame == frame_saves[Len(frame_saves)]

\* C35: frames are a round trip. new_frame returns the length of the stack
\* and leaves the stack as it is; while a frame is open, whatever is
\* declared and whatever inner frames are opened and closed, the stack keeps
\* the contents it had at new_frame as a prefix; pop_frame with the value
\* new_frame returned never fails its assertion and leaves the stack exactly
\* as it was at new_frame, so that every name resolves as it did then and no
\* declaration made inside the frame is found.
C35_FrameRoundTrip ==
    [][/\ last'.op = "new_frame" =>
            /\ last'.result = Len(name_context.local_stack)
            /\ name_context'.local_stack = name_context.local_stack
       /\ \A k \in DOMAIN frame_saves :
            /\ Len(name_context.local_stack) >= frame_saves[k].save
            /\ SubSeq(name_context.local_stack, 1, frame_saves[k].save)
                  = frame_saves[k].local_stack
       /\ last'.op = "pop_frame" =>
            /\ last'.prev_save = InnermostFrame.save
            /\ name_context.current_frame_starts_at >= last'.prev_save
            /\ ~ fatal'
            /\ name_context'.local_stack = InnermostFrame.local_stack
            /\ \A name \in LocalNames :
                get_declaration_for(name_context', name)
                    = get_declaration_for([name_context EXCEPT
                            !.local_stack = InnermostFrame.local_stack], name)
            /\ \A i \in DOMAIN name_context.local_stack :
                i > last'.prev_save =>
                    get_declaration_for(name_context', name_context.local_stack[i][1])
                        # Some(name_context.local_stack[i][2])
    ]_vars

\* An inner frame that held declarations has been closed while the outer
\* frame, which has declarations of its own, is still open: the stack holds
\* what it held when the inner frame was opened.
C35_Witness ==
    /\ last.op = "pop_frame"
    /\ ~ fatal
    /\ last.dropped > 0
    /\ frame_saves # <<>>
    /\ Len(name_context.local_stack) = last.prev_save
    /\ last.prev_save > InnermostFrame.save

(***************************************************************************)
(* No dangling entity id.                                                  *)
(***************************************************************************)
\* The entity ids that were issued and freed.
FreedGlobals == {g \in IssuedGlobals(globals) : Slot(globals, g) = FreedSlot}

\* How often the list of a file names an id.
Listings(f, id) ==
    Cardinality({i \in DOMAIN Slot(files, f).associated_values :
                    Slot(files, f).associated_values[i] = id})

\* C36: after any sequence of add_file, update_file and remove_files, no
\* namespace bucket and no live file's list of declared entities holds a
\* freed entity id; every live user entity is listed by exactly one live
\* file, the one it names as its own, once, and appears exactly once in the
\* bucket of its own name and in no other bucket; hence an id that name
\* resolution returns can be dereferenced.
C36_NoDanglingEntityIds ==
    /\ BoundIds(global_namespace) \cap FreedGlobals = {}
    /\ BoundIds(global_namespace) \subseteq LiveGlobals(globals)
    /\ \A f \in LiveFiles(files) :
        Range(Slot(files, f).associated_values) \subseteq LiveGlobals(globals)
    /\ \A g \in Modules(globals) :
        /\ {f \in LiveFiles(files) : Listings(f, g) > 0} = {Slot(globals, g).file}
        /\ Listings(Slot(globals, g).file, g) = 1
        /\ \A n \in Names :
            Occurrences(global_namespace, n, g) = IF n = Slot(globals, g).name THEN 1 ELSE 0
    /\ \A n \in Names :
        get_obj_id(global_namespace, n).some =>
            arena_index(globals, get_obj_id(global_namespace, n).val).some

\* A removal has freed entities while another file is live: a user name
\* resolves to a live entity of that file, and the freed ids are bound
\* nowhere.
C36_Witness ==
    /\ last.op = "remove_files"
    /\ FreedGlobals # {}
    /\ \E n \in UserNames, f \in LiveFiles(files) :
        /\ get_obj_id(global_namespace, n).some
        /\ get_obj_id(global_namespace, n).val \in Range(Slot(files, f).associated_values)
        /\ \E g \in FreedGlobals : g < get_obj_id(global_namespace, n).val

(***************************************************************************)
(* Builtins in collision buckets.                                          *)
(***************************************************************************)
\* The ids Linker::new gave the builtins.
BuiltinIds == {BuiltinId(n) : n \in BuiltinNames}

\* The positions of a bucket that hold a builtin.
BuiltinColliders(n) ==
    {i \in DOMAIN global_namespace[n].ids : global_namespace[n].ids[i] \in BuiltinIds}

\* C37: in every reachable state, whatever files were added, updated or
\* removed, no collision bucket holds more than one builtin: the builtin it
\* may hold is the one of the bucket's own name, every other collider has
\* link info, and so the assertion of get_duplicate_declaration_errors that
\* at most one collider lacks link info holds.
C37_AtMostOneBuiltinPerBucket ==
    /\ \A n \in Names : global_namespace[n].tag = "Colission" =>
        /\ Cardinality(BuiltinColliders(n)) <= 1
        /\ \A i \in BuiltinColliders(n) :
            /\ n \in BuiltinNames
            /\ global_namespace[n].ids[i] = BuiltinId(n)
        /\ \A i \in DOMAIN global_namespace[n].ids :
            HasLinkInfo(Slot(globals, global_namespace[n].ids[i])) <=> i \notin BuiltinColliders(n)
    /\ duplicate_declaration_asserts(TheLinker)

\* After a removal or an update, a builtin shares its bucket with two user
\* declarations of two files.
C37_Witness ==
    /\ FreedGlobals # {}
    /\ \E n \in BuiltinNames :
        /\ global_namespace[n].tag = "Colission"
        /\ Cardinality(BuiltinColliders(n)) = 1
        /\ Len(global_namespace[n].ids) = 3
        /\ Slot(globals, global_namespace[n].ids[2]).file
              # Slot(globals, global_namespace[n].ids[3]).file

====
